---- MODULE Spec2Model ----
(***************************************************************************)
(* Model of the eipet storefront's caching service worker (public/sw.js):  *)
(* the install / activate lifecycle, the fetch listener's request          *)
(* classification, the three strategies (cache-first, network-first,       *)
(* network-only) with their asynchronous suspension points, and the        *)
(* CLEAR_CACHE / CACHE_DATA message handlers.                              *)
(*                                                                         *)
(* Strings the code inspects with String.prototype.includes (hostnames,    *)
(* paths) and the texts JSON.stringify produces are sequences of tokens,   *)
(* so that substring tests and the JSON round trip are computed.           *)
(***************************************************************************)
EXTENDS Integers, Sequences, FiniteSets, TLC

(***************************************************************************)
(* Bounds of the model.                                                    *)
(***************************************************************************)
\* fetch events dispatched to the worker in one run
MaxHandlers == 2
\* fetch events dispatched in one run in which page contexts also send messages
MaxControlled == 1
\* messages (CLEAR_CACHE, CACHE_DATA) posted to the worker in one run
MaxMessages == 1

(***************************************************************************)
(* Token strings.                                                          *)
(***************************************************************************)
\* s.includes(sub): sub occurs in s as a contiguous run
Includes(s, sub) ==
    \E i \in 0..(Len(s) - Len(sub)) :
        \A j \in 1..Len(sub) : s[i + j] = sub[j]

\* a one-token text, used for plain (non-JSON) bodies
Text(t) == <<t>>

(***************************************************************************)
(* Constants of sw.js.                                                     *)
(***************************************************************************)
CACHE_VERSION == "v1"
CACHE_NAME == "eipet-cache-" \o CACHE_VERSION

\* self.location.origin: the origin the worker is served from
SelfOrigin == [scheme |-> "https", hostname |-> <<"eipet", ".", "app">>, port |-> ""]

Url(origin, pathname) ==
    [scheme |-> origin.scheme, hostname |-> origin.hostname,
     port |-> origin.port, pathname |-> pathname]

\* url.origin
OriginOf(url) == [scheme |-> url.scheme, hostname |-> url.hostname, port |-> url.port]

STATIC_CACHE_URLS ==
    << Url(SelfOrigin, <<"/">>),
       Url(SelfOrigin, <<"/", "products">>),
       Url(SelfOrigin, <<"/", "favicon.svg">>) >>

CACHE_STRATEGIES ==
    [CACHE_FIRST |-> "cache-first", NETWORK_FIRST |-> "network-first",
     NETWORK_ONLY |-> "network-only"]

\* the fetch listener returned without calling respondWith
BYPASS == "bypass"

\* hostnames the fetch listener refuses to intercept (first test, line 67-69)
FirebaseHosts ==
    { <<"firebasestorage", ".", "googleapis", ".", "com">>,
      <<"firebaseapp", ".", "com">>,
      <<"googleapis", ".", "com">> }

\* second test (line 75)
FirestoreHost == <<"firestore", ".", "googleapis", ".", "com">>

\* faulty variant: the method test is missing
StrategyOf_AnyMethod(request) ==
    LET url == request.url IN
    IF \E d \in FirebaseHosts : Includes(url.hostname, d) THEN BYPASS
    ELSE IF Includes(url.pathname, <<"/", "categories">>)
            \/ Includes(url.pathname, <<"/", "brands">>)
         THEN CACHE_STRATEGIES.CACHE_FIRST
    ELSE IF Includes(url.pathname, <<"/", "products">>)
         THEN CACHE_STRATEGIES.NETWORK_FIRST
    ELSE IF OriginOf(url) = SelfOrigin
         THEN CACHE_STRATEGIES.CACHE_FIRST
    ELSE CACHE_STRATEGIES.NETWORK_ONLY

\* faulty variant: the /products test comes before the /categories, /brands test
StrategyOf_ProductsFirst(request) ==
    LET url == request.url IN
    IF request.method # "GET" THEN BYPASS
    ELSE IF \E d \in FirebaseHosts : Includes(url.hostname, d) THEN BYPASS
    ELSE IF Includes(url.pathname, <<"/", "products">>)
         THEN CACHE_STRATEGIES.NETWORK_FIRST
    ELSE IF Includes(url.pathname, <<"/", "categories">>)
            \/ Includes(url.pathname, <<"/", "brands">>)
         THEN CACHE_STRATEGIES.CACHE_FIRST
    ELSE IF OriginOf(url) = SelfOrigin
         THEN CACHE_STRATEGIES.CACHE_FIRST
    ELSE CACHE_STRATEGIES.NETWORK_ONLY

(***************************************************************************)
(* The fetch listener's classification (sw.js 57-93), in the code's order  *)
(* of tests.                                                               *)
(***************************************************************************)
StrategyOf(request) ==
    LET url == request.url IN
    IF request.method # "GET" THEN BYPASS
    ELSE IF \E d \in FirebaseHosts : Includes(url.hostname, d) THEN BYPASS
    ELSE IF Includes(url.hostname, FirestoreHost) THEN BYPASS
    ELSE IF Includes(url.pathname, <<"/", "categories">>)
            \/ Includes(url.pathname, <<"/", "brands">>)
         THEN CACHE_STRATEGIES.CACHE_FIRST
    ELSE IF Includes(url.pathname, <<"/", "products">>)
         THEN CACHE_STRATEGIES.NETWORK_FIRST
    ELSE IF OriginOf(url) = SelfOrigin
         THEN CACHE_STRATEGIES.CACHE_FIRST
    ELSE CACHE_STRATEGIES.NETWORK_ONLY

(***************************************************************************)
(* JSON values and JSON.stringify / Response.json() (sw.js 185).  A value  *)
(* is [t, s, k, c]: its type, its scalar text as characters, its member    *)
(* names (objects) and its children (arrays, objects).                     *)
(***************************************************************************)
JNull == [t |-> "null", s |-> <<>>, k |-> <<>>, c |-> <<>>]
JBool(b) == [t |-> "bool", s |-> <<b>>, k |-> <<>>, c |-> <<>>]
JNum(digits) == [t |-> "num", s |-> <<digits>>, k |-> <<>>, c |-> <<>>]
JStr(chars) == [t |-> "str", s |-> chars, k |-> <<>>, c |-> <<>>]
JArr(items) == [t |-> "arr", s |-> <<>>, k |-> <<>>, c |-> items]
JObj(names, values) == [t |-> "obj", s |-> <<>>, k |-> names, c |-> values]

Quote == "\""
Backslash == "\\"

RECURSIVE Escape(_)
\* the characters of a string literal's inside: quotes and backslashes escaped
Escape(chars) ==
    IF chars = <<>> THEN <<>>
    ELSE (IF Head(chars) \in {Quote, Backslash}
          THEN <<Backslash, Head(chars)>> ELSE <<Head(chars)>>)
         \o Escape(Tail(chars))

QuoteString(chars) == <<Quote>> \o Escape(chars) \o <<Quote>>

RECURSIVE JSONstringify(_)
RECURSIVE StringifyItems(_)
RECURSIVE StringifyMembers(_, _)
StringifyItems(items) ==
    IF items = <<>> THEN <<>>
    ELSE JSONstringify(Head(items))
         \o (IF Len(items) > 1 THEN <<",">> ELSE <<>>)
         \o StringifyItems(Tail(items))

StringifyMembers(names, values) ==
    IF names = <<>> THEN <<>>
    ELSE QuoteString(Head(names)) \o <<":">> \o JSONstringify(Head(values))
         \o (IF Len(names) > 1 THEN <<",">> ELSE <<>>)
         \o StringifyMembers(Tail(names), Tail(values))

\* JSON.stringify(data)
JSONstringify(v) ==
    CASE v.t = "null" -> <<"null">>
      [] v.t = "bool" -> v.s
      [] v.t = "num" -> v.s
      [] v.t = "str" -> QuoteString(v.s)
      [] v.t = "arr" -> <<"[">> \o StringifyItems(v.c) \o <<"]">>
      [] v.t = "obj" -> <<"{">> \o StringifyMembers(v.k, v.c) \o <<"}">>

\* a parse result: the value read and the text left; ok = FALSE is a SyntaxError
Parsed(v, rest) == [ok |-> TRUE, v |-> v, rest |-> rest]
SyntaxError == [ok |-> FALSE, v |-> JNull, rest |-> <<>>]

Digits == {"0", "1", "2", "3", "4", "5", "6", "7", "8", "9"}

RECURSIVE ParseChars(_, _)
\* the inside of a string literal, after the opening quote
ParseChars(text, acc) ==
    IF text = <<>> THEN SyntaxError
    ELSE IF Head(text) = Quote THEN Parsed(JStr(acc), Tail(text))
    ELSE IF Head(text) = Backslash
         THEN IF Len(text) < 2 THEN SyntaxError
              ELSE ParseChars(Tail(Tail(text)), Append(acc, text[2]))
    ELSE ParseChars(Tail(text), Append(acc, Head(text)))

RECURSIVE ParseValue(_)
RECURSIVE ParseItems(_, _)
RECURSIVE ParseMembers(_, _, _)
\* the items of an array, after "[" or ","
ParseItems(text, acc) ==
    LET item == ParseValue(text) IN
    IF ~item.ok \/ item.rest = <<>> THEN SyntaxError
    ELSE IF Head(item.rest) = "]"
         THEN Parsed(JArr(Append(acc, item.v)), Tail(item.rest))
    ELSE IF Head(item.rest) = ","
         THEN ParseItems(Tail(item.rest), Append(acc, item.v))
    ELSE SyntaxError

\* the members of an object, after "{" or ","
ParseMembers(text, names, values) ==
    IF text = <<>> \/ Head(text) # Quote THEN SyntaxError
    ELSE LET name == ParseChars(Tail(text), <<>>) IN
         IF ~name.ok \/ name.rest = <<>> \/ Head(name.rest) # ":" THEN SyntaxError
         ELSE LET val == ParseValue(Tail(name.rest)) IN
              IF ~val.ok \/ val.rest = <<>> THEN SyntaxError
              ELSE IF Head(val.rest) = "}"
                   THEN Parsed(JObj(Append(names, name.v.s), Append(values, val.v)),
                               Tail(val.rest))
              ELSE IF Head(val.rest) = ","
                   THEN ParseMembers(Tail(val.rest), Append(names, name.v.s),
                                     Append(values, val.v))
              ELSE SyntaxError

ParseValue(text) ==
    IF text = <<>> THEN SyntaxError
    ELSE LET h == Head(text) r == Tail(text) IN
         CASE h = "null" -> Parsed(JNull, r)
           [] h \in {"true", "false"} -> Parsed(JBool(h), r)
           [] h \in Digits -> Parsed(JNum(h), r)
           [] h = Quote -> ParseChars(r, <<>>)
           [] h = "[" -> IF r # <<>> /\ Head(r) = "]" THEN Parsed(JArr(<<>>), Tail(r))
                         ELSE ParseItems(r, <<>>)
           [] h = "{" -> IF r # <<>> /\ Head(r) = "}"
                         THEN Parsed(JObj(<<>>, <<>>), Tail(r))
                         ELSE ParseMembers(r, <<>>, <<>>)
           [] OTHER -> SyntaxError

\* response.json(): the whole body must be one JSON text
JSONparse(text) ==
    LET p == ParseValue(text) IN
    IF p.ok /\ p.rest = <<>> THEN p ELSE SyntaxError

(***************************************************************************)
(* Responses.                                                              *)
(***************************************************************************)
Response(body, status) == [status |-> status, body |-> body]

\* faulty variant: every status below the server errors counts as ok
Ok_NotServerError(response) == response.status >= 200 /\ response.status <= 499

\* response.ok
Ok(response) == response.status >= 200 /\ response.status <= 299

\* no response (yet); a fetch that threw
NoResponse == Response(<<>>, 0)
Threw == Response(<<>>, -1)

\* the synthesized fallbacks (sw.js 126, 157, 160, 170)
OfflineResponse == Response(Text("Offline"), 503)
\* faulty variant: the same text as the other 503
NoCacheResponse_Plain == Response(Text("Offline"), 503)
NoCacheResponse == Response(Text("Offline y sin caché"), 503)
ErrorResponse == Response(Text("Error"), 500)

\* what the network may answer to a GET: two versions of the resource, or an
\* upstream error page
NetworkResponses ==
    { Response(Text("n1"), 200), Response(Text("n2"), 200),
      Response(Text("NotFound"), 404) }

\* every way a fetch(request) can end
FetchOutcomes == NetworkResponses \cup {Threw}

(***************************************************************************)
(* The requests page contexts send.  One per row of the classification,    *)
(* and the identities the strategies and the messages share.               *)
(***************************************************************************)
CdnOrigin == [scheme |-> "https", hostname |-> <<"cdn", ".", "example", ".", "com">>, port |-> ""]
\* same hostname as the worker's, another scheme and port: another origin
DevOrigin == [scheme |-> "http", hostname |-> SelfOrigin.hostname, port |-> "8080"]
StorageOrigin ==
    [scheme |-> "https", hostname |-> <<"firebasestorage", ".", "googleapis", ".", "com">>, port |-> ""]
AuthOrigin ==
    [scheme |-> "https", hostname |-> <<"eipet", ".", "firebaseapp", ".", "com">>, port |-> ""]

Request(method, url) == [method |-> method, url |-> url]

\* keys a page context seeds with CACHE_DATA
SeedKeys == {"k"}

\* new Request(`/cache/${key}`): resolved against the worker's own origin
SeedRequest(key) == Request("GET", Url(SelfOrigin, <<"/", "cache", "/", key>>))

Requests ==
    { Request("GET", Url(SelfOrigin, <<"/">>)),
      Request("GET", Url(SelfOrigin, <<"/", "categories">>)),
      Request("GET", Url(SelfOrigin, <<"/", "products">>)),
      Request("GET", Url(SelfOrigin, <<"/", "categories", "/", "products">>)),
      Request("GET", Url(CdnOrigin, <<"/", "brands">>)),
      Request("GET", Url(CdnOrigin, <<"/", "products">>)),
      Request("GET", Url(CdnOrigin, <<"/", "lib.js">>)),
      Request("GET", Url(DevOrigin, <<"/">>)),
      Request("POST", Url(SelfOrigin, <<"/", "products">>)),
      Request("GET", Url(StorageOrigin, <<"/", "products">>)),
      Request("GET", Url(AuthOrigin, <<"/", "categories">>)) }

\* the requests for what a page context has seeded
SeedRequests == { SeedRequest(key) : key \in SeedKeys }

\* payloads a page context seeds: {"a":1}, ["x\"y", true, null], "\\"
Payloads ==
    { JObj(<< <<"a">> >>, << JNum("1") >>),
      JArr(<< JStr(<<"x", Quote, "y">>), JBool("true"), JNull >>),
      JStr(<<Backslash>>) }

(***************************************************************************)
(* State.                                                                  *)
(***************************************************************************)
VARIABLES
    swState,     \* the worker's lifecycle state
    install,     \* progress of the install listener's promise chain
    activate,    \* progress of the activate listener's promise chain
    cacheNames,  \* CacheStorage: store name -> cache object
    cacheData,   \* cache object -> (request url -> stored response)
    nextId,      \* the next cache object
    handlers,    \* one slot per fetch event, in order of dispatch
    delivered,   \* the outcome of the fetch event whose handling ended last,
                 \* kept until the next event arrives
    revals,      \* background revalidations whose fetch is in flight
    puts,        \* cache.put calls issued and not yet performed
    clears,      \* one record per CLEAR_CACHE message
    seeds,       \* one record per CACHE_DATA message
    unhandled,   \* a promise of the worker rejected with nothing handling it
    scenario,    \* history: the operation run without interleaving, if any
    cartDoc,     \* the Firestore document cart/<userId> of one user
    calls,       \* the addToCart / updateCartItem calls made, each with its locals
    state,       \* the OrdersState of the profile page's orders section
    pagination,  \* the pagination controls of the orders section as rendered
    loading      \* the number of order loads in flight

\* the service worker's variables and the page scripts' variables
workerVars == <<swState, install, activate, cacheNames, cacheData, nextId, handlers,
                delivered, revals, puts, clears, seeds, unhandled, scenario>>
pageVars == <<cartDoc, calls, state, pagination, loading>>

vars == <<workerVars, pageVars>>

\* stores left by earlier deployments or other code of the origin
StaleNames == {"eipet-cache-v0", "images"}

\* f with k mapped to v; f without k
PutKey(f, k, v) == [x \in DOMAIN f \cup {k} |-> IF x = k THEN v ELSE f[x]]
RemoveKey(f, k) == [x \in DOMAIN f \ {k} |-> f[x]]
EmptyMap == [x \in {} |-> NoResponse]

NoScenario == [kind |-> "none", h |-> 0, msg |-> 0]
\* the step belongs to the running scenario when own, else it interrupts it
Keep(own) == scenario' = IF own THEN scenario ELSE NoScenario

(***************************************************************************)
(* CacheStorage (the platform object the worker calls).                    *)
(***************************************************************************)
\* caches.open(name): the store's cache object, created empty when missing
OpenedId(name) == IF name \in DOMAIN cacheNames THEN cacheNames[name] ELSE nextId

CachesOpen(name) ==
    IF name \in DOMAIN cacheNames
    THEN UNCHANGED <<cacheNames, cacheData, nextId>>
    ELSE /\ cacheNames' = PutKey(cacheNames, name, nextId)
         /\ cacheData' = PutKey(cacheData, nextId, EmptyMap)
         /\ nextId' = nextId + 1

\* faulty variant: the store is emptied in place and stays bound to its name
CachesDelete_EmptiesInPlace(name) ==
    /\ cacheData' = IF name \in DOMAIN cacheNames
                    THEN [cacheData EXCEPT ![cacheNames[name]] = EmptyMap]
                    ELSE cacheData
    /\ UNCHANGED <<cacheNames, nextId>>

\* caches.delete(name): the name is unbound; cache objects already handed out
\* stay usable by their holders
CachesDelete(name) ==
    /\ cacheNames' = RemoveKey(cacheNames, name)
    /\ UNCHANGED <<cacheData, nextId>>

\* cache.match(request) on a cache object
Match(id, request) ==
    IF request.url \in DOMAIN cacheData[id] THEN cacheData[id][request.url]
    ELSE NoResponse

(***************************************************************************)
(* install listener (sw.js 23-34):                                         *)
(*   waitUntil(caches.open(CACHE_NAME).then(addAll).then(skipWaiting))     *)
(***************************************************************************)
\* what the network answers while the manifest is fetched at install time
InstallOutcomes == {Response(Text("n1"), 200), Response(Text("NotFound"), 404), Threw}

Install ==
    /\ swState = "parsed"
    /\ swState' = "installing"
    /\ install' = [install EXCEPT !.pc = "open"]
    /\ Keep(FALSE)
    /\ UNCHANGED <<activate, cacheNames, cacheData, nextId, handlers, delivered, revals,
                   puts, clears, seeds, unhandled>>
    /\ UNCHANGED pageVars

\* caches.open(CACHE_NAME) settles; a rejection rejects the whole chain
InstallOpen ==
    /\ install.pc = "open"
    /\ \/ /\ CachesOpen(CACHE_NAME)
          /\ install' = [pc |-> "addAll", cache |-> OpenedId(CACHE_NAME)]
          /\ UNCHANGED swState
       \/ /\ install' = [install EXCEPT !.pc = "failed"]
          /\ swState' = "redundant"
          /\ UNCHANGED <<cacheNames, cacheData, nextId>>
    /\ Keep(FALSE)
    /\ UNCHANGED <<activate, handlers, delivered, revals, puts, clears, seeds, unhandled>>
    /\ UNCHANGED pageVars

\* the entries cache.addAll(urls) writes, given each url's fetch outcome:
\* all of them when every fetch is ok, none otherwise
AddAllEntries(entries, urls, outcome) ==
    [u \in DOMAIN entries \cup {urls[i] : i \in DOMAIN urls} |->
        IF \E i \in DOMAIN urls : urls[i] = u
        THEN outcome[CHOOSE i \in DOMAIN urls : urls[i] = u]
        ELSE entries[u]]

\* faulty variant: the manifest URLs are fetched and stored one by one, so the
\* ones that answered ok stay stored when another one fails
InstallAddAll_Partial ==
    /\ install.pc = "addAll"
    /\ \E outcome \in [DOMAIN STATIC_CACHE_URLS -> InstallOutcomes] :
          LET good == {i \in DOMAIN outcome : outcome[i] # Threw /\ Ok(outcome[i])}
              stored == [u \in DOMAIN cacheData[install.cache]
                               \cup {STATIC_CACHE_URLS[i] : i \in good} |->
                           IF \E i \in good : STATIC_CACHE_URLS[i] = u
                           THEN outcome[CHOOSE i \in good : STATIC_CACHE_URLS[i] = u]
                           ELSE cacheData[install.cache][u]]
          IN /\ cacheData' = [cacheData EXCEPT ![install.cache] = stored]
             /\ IF good = DOMAIN outcome
                THEN /\ install' = [install EXCEPT !.pc = "skipWaiting"]
                     /\ UNCHANGED swState
                ELSE /\ install' = [install EXCEPT !.pc = "failed"]
                     /\ swState' = "redundant"
    /\ Keep(FALSE)
    /\ UNCHANGED <<activate, cacheNames, nextId, handlers, delivered, revals, puts, clears,
                   seeds, unhandled>>
    /\ UNCHANGED pageVars

\* cache.addAll(STATIC_CACHE_URLS) settles (sw.js 28): every URL is fetched, and
\* the entries are written together only when every answer is ok
InstallAddAll ==
    /\ install.pc = "addAll"
    /\ \E outcome \in [DOMAIN STATIC_CACHE_URLS -> InstallOutcomes] :
          IF \A i \in DOMAIN outcome : outcome[i] # Threw /\ Ok(outcome[i])
          THEN /\ cacheData' = [cacheData EXCEPT ![install.cache] =
                                   AddAllEntries(@, STATIC_CACHE_URLS, outcome)]
               /\ install' = [install EXCEPT !.pc = "skipWaiting"]
               /\ UNCHANGED swState
          ELSE /\ install' = [install EXCEPT !.pc = "failed"]
               /\ swState' = "redundant"
               /\ UNCHANGED cacheData
    /\ Keep(FALSE)
    /\ UNCHANGED <<activate, cacheNames, nextId, handlers, delivered, revals, puts, clears,
                   seeds, unhandled>>
    /\ UNCHANGED pageVars

\* self.skipWaiting(): the chain resolves and the worker is installed
InstallSkipWaiting ==
    /\ install.pc = "skipWaiting"
    /\ install' = [install EXCEPT !.pc = "done"]
    /\ swState' = "installed"
    /\ Keep(FALSE)
    /\ UNCHANGED <<activate, cacheNames, cacheData, nextId, handlers, delivered, revals,
                   puts, clears, seeds, unhandled>>
    /\ UNCHANGED pageVars

(***************************************************************************)
(* activate listener (sw.js 37-54):                                        *)
(*   waitUntil(caches.keys().then(names => Promise.all(names.map(delete))) *)
(*             .then(() => clients.claim()))                               *)
(***************************************************************************)
\* faulty variant: only the stores carrying the application's prefix are deleted
StoresToDelete_OwnPrefix(names) == {n \in names : n # CACHE_NAME /\ n # "images"}

\* the names the map callback deletes (sw.js 43)
StoresToDelete(names) == {n \in names : n # CACHE_NAME}

Activate ==
    /\ swState = "installed"
    /\ swState' = "activating"
    /\ activate' = [activate EXCEPT !.pc = "keys"]
    /\ Keep(FALSE)
    /\ UNCHANGED <<install, cacheNames, cacheData, nextId, handlers, delivered, revals,
                   puts, clears, seeds, unhandled>>
    /\ UNCHANGED pageVars

\* caches.keys() resolves with cacheNames and the callback issues one delete
\* per stale store
ActivateKeys ==
    /\ activate.pc = "keys"
    /\ activate' = [activate EXCEPT !.pc = "deleting",
                                    !.names = DOMAIN cacheNames,
                                    !.todo = StoresToDelete(DOMAIN cacheNames)]
    /\ Keep(FALSE)
    /\ UNCHANGED <<swState, install, cacheNames, cacheData, nextId, handlers, delivered,
                   revals, puts, clears, seeds, unhandled>>
    /\ UNCHANGED pageVars

\* one of the issued caches.delete(name) is performed, or rejects
ActivateDelete(name) ==
    /\ activate.pc \in {"deleting", "failed"}
    /\ name \in activate.todo
    /\ \/ /\ CachesDelete(name)
          /\ activate' = [activate EXCEPT !.todo = @ \ {name}]
       \/ /\ activate' = [activate EXCEPT !.todo = @ \ {name}, !.failed = TRUE]
          /\ UNCHANGED <<cacheNames, cacheData, nextId>>
    /\ Keep(FALSE)
    /\ UNCHANGED <<swState, install, handlers, delivered, revals, puts, clears, seeds, unhandled>>
    /\ UNCHANGED pageVars

\* faulty variant: clients.claim() is called next to the deletions instead of
\* after Promise.all
ActivateClaim_Early ==
    /\ activate.pc = "deleting"
    /\ ~activate.failed
    /\ activate' = [activate EXCEPT !.pc = "done"]
    /\ swState' = "activated"
    /\ Keep(FALSE)
    /\ UNCHANGED <<install, cacheNames, cacheData, nextId, handlers, delivered, revals,
                   puts, clears, seeds, unhandled>>
    /\ UNCHANGED pageVars

\* Promise.all resolved: self.clients.claim()
ActivateClaim ==
    /\ activate.pc = "deleting"
    /\ activate.todo = {}
    /\ ~activate.failed
    /\ activate' = [activate EXCEPT !.pc = "done"]
    /\ swState' = "activated"
    /\ Keep(FALSE)
    /\ UNCHANGED <<install, cacheNames, cacheData, nextId, handlers, delivered, revals,
                   puts, clears, seeds, unhandled>>
    /\ UNCHANGED pageVars

\* Promise.all rejected: the chain rejects before claim; the browser
\* activates the worker all the same
ActivateRejected ==
    /\ activate.pc = "deleting"
    /\ activate.failed
    /\ activate' = [activate EXCEPT !.pc = "failed"]
    /\ swState' = "activated"
    /\ Keep(FALSE)
    /\ UNCHANGED <<install, cacheNames, cacheData, nextId, handlers, delivered, revals,
                   puts, clears, seeds, unhandled>>
    /\ UNCHANGED pageVars

(***************************************************************************)
(* fetch listener (sw.js 57-93) and the strategies (sw.js 96-172).  Every  *)
(* await is a step of its own: other handlers and messages run in between. *)
(***************************************************************************)
\* a running handler is at "open", "match" or "fetch": the call its strategy
\* awaits.  looked and net record what its lookup and its fetch gave.
NewHandler(request) ==
    LET strategy == StrategyOf(request) IN
    [req |-> request, strategy |-> strategy,
     pc |-> CASE strategy = BYPASS -> "passed"
              [] strategy = CACHE_STRATEGIES.NETWORK_ONLY -> "fetch"
              [] OTHER -> "open",
     cache |-> 0, looked |-> "none", net |-> NoResponse]

\* the slot of a fetch event whose handling is over
Settled ==
    [req |-> Request("", Url(SelfOrigin, <<>>)), strategy |-> "", pc |-> "settled",
     cache |-> 0, looked |-> "none", net |-> NoResponse]

\* nothing handled yet
NoOutcome ==
    [i |-> 0, req |-> Request("", Url(SelfOrigin, <<>>)), strategy |-> "",
     pc |-> "none", cache |-> 0, looked |-> "none", net |-> NoResponse,
     result |-> NoResponse]

\* what the page context gets for fetch event i: pc is "done" when the promise
\* given to respondWith resolved with result, "passed" when the listener
\* returned without respondWith
Outcome(i, h, pc, result) ==
    [i |-> i, req |-> h.req, strategy |-> h.strategy, pc |-> pc, cache |-> h.cache,
     looked |-> h.looked, net |-> h.net, result |-> result]

\* handler i's strategy returns response
Resolve(i, h, response) ==
    /\ handlers' = [handlers EXCEPT ![i] = Settled]
    /\ delivered' = Outcome(i, h, "done", response)

\* faulty variant: the exception is not caught and the strategy's promise rejects
Caught_Rethrown(i, h, response) ==
    /\ handlers' = [handlers EXCEPT ![i] = Settled]
    /\ delivered' = Outcome(i, h, "rejected", NoResponse)

\* an exception reaches the strategy's catch block, which returns response
\* (sw.js 123-127, 158-161, 168-171)
Caught(i, h, response) == Resolve(i, h, response)

\* cache.put(request, response.clone()) is called and not awaited
IssuePut(cache, request, response, by, h) ==
    puts \cup {[cache |-> cache, url |-> request.url, response |-> response,
                by |-> by, h |-> h]}

FetchEvent(request, limit) ==
    /\ swState = "activated"
    /\ Len(handlers) < limit
    /\ IF StrategyOf(request) = BYPASS
       THEN /\ handlers' = Append(handlers, Settled)
            /\ delivered' = Outcome(Len(handlers) + 1, NewHandler(request),
                                    "passed", NoResponse)
       ELSE /\ handlers' = Append(handlers, NewHandler(request))
            /\ delivered' = NoOutcome
    /\ scenario' = IF scenario.kind \in {"cleared", "seeded"} /\ scenario.h = 0
                      /\ StrategyOf(request) # BYPASS
                   THEN [scenario EXCEPT !.h = Len(handlers) + 1]
                   ELSE NoScenario
    /\ UNCHANGED <<swState, install, activate, cacheNames, cacheData, nextId,
                   revals, puts, clears, seeds, unhandled>>
    /\ UNCHANGED pageVars

\* what each strategy's catch block answers when the store cannot be used
\* (sw.js 123-127, 158-161)
StoreFailureResponse(strategy) ==
    IF strategy = CACHE_STRATEGIES.CACHE_FIRST THEN OfflineResponse ELSE ErrorResponse

\* const cache = await caches.open(CACHE_NAME)   (sw.js 98, 133)
StrategyOpen(i) ==
    LET h == handlers[i] IN
    /\ h.pc = "open"
    /\ \/ /\ CachesOpen(CACHE_NAME)
          /\ handlers' = [handlers EXCEPT ![i] =
                [h EXCEPT !.cache = OpenedId(CACHE_NAME),
                          !.pc = IF h.strategy = CACHE_STRATEGIES.CACHE_FIRST
                                 THEN "match" ELSE "fetch"]]
          /\ UNCHANGED delivered
       \/ /\ Caught(i, h, StoreFailureResponse(h.strategy))
          /\ UNCHANGED <<cacheNames, cacheData, nextId>>
    /\ Keep(scenario.h = i)
    /\ UNCHANGED <<swState, install, activate, revals, puts, clears, seeds, unhandled>>
    /\ UNCHANGED pageVars

\* faulty variant: the refresh is awaited and its response returned
CacheFirstHit_AwaitsRefresh(i, cached) ==
    /\ handlers' = [handlers EXCEPT ![i] = [@ EXCEPT !.looked = "hit", !.pc = "fetch"]]
    /\ UNCHANGED <<revals, delivered>>

\* cacheFirstStrategy, the lookup found cached (sw.js 101-112): the refresh
\* is started and the cached response returned
CacheFirstHit(i, cached) ==
    /\ Resolve(i, [handlers[i] EXCEPT !.looked = "hit"], cached)
    /\ revals' = revals \cup {[h |-> i, cache |-> handlers[i].cache,
                               req |-> handlers[i].req]}

\* const cachedResponse = await cache.match(request)   (sw.js 99)
CacheFirstMatch(i) ==
    LET h == handlers[i] IN
    /\ h.strategy = CACHE_STRATEGIES.CACHE_FIRST
    /\ h.pc = "match"
    /\ \/ LET cached == Match(h.cache, h.req) IN
          IF cached # NoResponse
          THEN CacheFirstHit(i, cached)
          ELSE /\ handlers' = [handlers EXCEPT ![i] =
                                  [h EXCEPT !.looked = "miss", !.pc = "fetch"]]
               /\ UNCHANGED <<revals, delivered>>
       \/ /\ Caught(i, [h EXCEPT !.looked = "failed"], StoreFailureResponse(h.strategy))
          /\ UNCHANGED revals
    /\ Keep(scenario.h = i)
    /\ UNCHANGED <<swState, install, activate, cacheNames, cacheData, nextId,
                   puts, clears, seeds, unhandled>>
    /\ UNCHANGED pageVars

\* faulty variant: the fallback response is written to the store
CacheFirstFetch_StoresFallback(i) ==
    LET h == handlers[i] IN
    /\ h.strategy = CACHE_STRATEGIES.CACHE_FIRST
    /\ h.pc = "fetch"
    /\ \E outcome \in FetchOutcomes :
          IF outcome = Threw
          THEN /\ Caught(i, [h EXCEPT !.net = Threw], OfflineResponse)
               /\ puts' = IssuePut(h.cache, h.req, OfflineResponse, "strategy", i)
          ELSE /\ Resolve(i, [h EXCEPT !.net = outcome], outcome)
               /\ puts' = IF Ok(outcome)
                          THEN IssuePut(h.cache, h.req, outcome, "strategy", i)
                          ELSE puts
    /\ Keep(scenario.h = i)
    /\ UNCHANGED <<swState, install, activate, cacheNames, cacheData, nextId,
                   revals, clears, seeds, unhandled>>
    /\ UNCHANGED pageVars

\* faulty variant: the response is written whatever its status
CacheFirstFetch_StoresAny(i) ==
    LET h == handlers[i] IN
    /\ h.strategy = CACHE_STRATEGIES.CACHE_FIRST
    /\ h.pc = "fetch"
    /\ \E outcome \in FetchOutcomes :
          IF outcome = Threw
          THEN /\ Caught(i, [h EXCEPT !.net = Threw], OfflineResponse)
               /\ UNCHANGED puts
          ELSE /\ Resolve(i, [h EXCEPT !.net = outcome], outcome)
               /\ puts' = IssuePut(h.cache, h.req, outcome, "strategy", i)
    /\ Keep(scenario.h = i)
    /\ UNCHANGED <<swState, install, activate, cacheNames, cacheData, nextId,
                   revals, clears, seeds, unhandled>>
    /\ UNCHANGED pageVars

\* const networkResponse = await fetch(request) on a miss (sw.js 116-127)
CacheFirstFetch(i) ==
    LET h == handlers[i] IN
    /\ h.strategy = CACHE_STRATEGIES.CACHE_FIRST
    /\ h.pc = "fetch"
    /\ \E outcome \in FetchOutcomes :
          IF outcome = Threw
          THEN /\ Caught(i, [h EXCEPT !.net = Threw], OfflineResponse)
               /\ UNCHANGED puts
          ELSE /\ Resolve(i, [h EXCEPT !.net = outcome], outcome)
               /\ puts' = IF Ok(outcome)
                          THEN IssuePut(h.cache, h.req, outcome, "strategy", i)
                          ELSE puts
    /\ Keep(scenario.h = i)
    /\ UNCHANGED <<swState, install, activate, cacheNames, cacheData, nextId,
                   revals, clears, seeds, unhandled>>
    /\ UNCHANGED pageVars

\* faulty variant: the refresh writes whatever the network answered
Revalidate_StoresAny(r) ==
    /\ r \in revals
    /\ revals' = revals \ {r}
    /\ \E outcome \in FetchOutcomes :
          puts' = IF outcome # Threw
                  THEN IssuePut(r.cache, r.req, outcome, "revalidation", r.h)
                  ELSE puts
    /\ Keep(FALSE)
    /\ UNCHANGED <<swState, install, activate, cacheNames, cacheData, nextId,
                   handlers, delivered, clears, seeds, unhandled>>
    /\ UNCHANGED pageVars

\* faulty variant: a refresh whose fetch throws drops the entry it was to renew
Revalidate_EvictsOnThrow(r) ==
    /\ r \in revals
    /\ revals' = revals \ {r}
    /\ \E outcome \in FetchOutcomes :
          /\ puts' = IF outcome # Threw /\ Ok(outcome)
                     THEN IssuePut(r.cache, r.req, outcome, "revalidation", r.h)
                     ELSE puts
          /\ cacheData' = IF outcome = Threw
                          THEN [cacheData EXCEPT ![r.cache] = RemoveKey(@, r.req.url)]
                          ELSE cacheData
    /\ Keep(FALSE)
    /\ UNCHANGED <<swState, install, activate, cacheNames, nextId,
                   handlers, delivered, clears, seeds, unhandled>>
    /\ UNCHANGED pageVars

\* the background refresh of a hit (sw.js 104-110): its fetch settles
Revalidate(r) ==
    /\ r \in revals
    /\ revals' = revals \ {r}
    /\ \E outcome \in FetchOutcomes :
          puts' = IF outcome # Threw /\ Ok(outcome)
                  THEN IssuePut(r.cache, r.req, outcome, "revalidation", r.h)
                  ELSE puts
    /\ Keep(FALSE)
    /\ UNCHANGED <<swState, install, activate, cacheNames, cacheData, nextId,
                   handlers, delivered, clears, seeds, unhandled>>
    /\ UNCHANGED pageVars

\* networkFirstStrategy, the fetch answered ok (sw.js 139-144)
NetworkFirstFresh(i, networkResponse) ==
    /\ Resolve(i, [handlers[i] EXCEPT !.net = networkResponse], networkResponse)
    /\ puts' = IssuePut(handlers[i].cache, handlers[i].req, networkResponse, "strategy", i)

\* faulty variant: whatever the network answers is returned
NetworkFirstFetch_ReturnsAny(i) ==
    LET h == handlers[i] IN
    /\ h.strategy = CACHE_STRATEGIES.NETWORK_FIRST
    /\ h.pc = "fetch"
    /\ \E outcome \in FetchOutcomes :
          IF outcome # Threw
          THEN /\ Resolve(i, [h EXCEPT !.net = outcome], outcome)
               /\ puts' = IF Ok(outcome)
                          THEN IssuePut(h.cache, h.req, outcome, "strategy", i)
                          ELSE puts
          ELSE /\ handlers' = [handlers EXCEPT ![i] =
                                  [h EXCEPT !.net = outcome, !.pc = "match"]]
               /\ UNCHANGED <<puts, delivered>>
    /\ Keep(scenario.h = i)
    /\ UNCHANGED <<swState, install, activate, cacheNames, cacheData, nextId,
                   revals, clears, seeds, unhandled>>
    /\ UNCHANGED pageVars

\* faulty variant: a failed fetch is tried again instead of falling back
NetworkFirstFetch_Retries(i) ==
    LET h == handlers[i] IN
    /\ h.strategy = CACHE_STRATEGIES.NETWORK_FIRST
    /\ h.pc = "fetch"
    /\ \E outcome \in FetchOutcomes :
          IF outcome # Threw /\ Ok(outcome)
          THEN NetworkFirstFresh(i, outcome)
          ELSE /\ handlers' = [handlers EXCEPT ![i] = [h EXCEPT !.net = outcome]]
               /\ UNCHANGED <<puts, delivered>>
    /\ Keep(scenario.h = i)
    /\ UNCHANGED <<swState, install, activate, cacheNames, cacheData, nextId,
                   revals, clears, seeds, unhandled>>
    /\ UNCHANGED pageVars

\* const networkResponse = await fetch(request)   (sw.js 135-147)
NetworkFirstFetch(i) ==
    LET h == handlers[i] IN
    /\ h.strategy = CACHE_STRATEGIES.NETWORK_FIRST
    /\ h.pc = "fetch"
    /\ \E outcome \in FetchOutcomes :
          IF outcome # Threw /\ Ok(outcome)
          THEN NetworkFirstFresh(i, outcome)
          ELSE /\ handlers' = [handlers EXCEPT ![i] =
                                  [h EXCEPT !.net = outcome, !.pc = "match"]]
               /\ UNCHANGED <<puts, delivered>>
    /\ Keep(scenario.h = i)
    /\ UNCHANGED <<swState, install, activate, cacheNames, cacheData, nextId,
                   revals, clears, seeds, unhandled>>
    /\ UNCHANGED pageVars

\* faulty variant: the fallback answers 503 without using the entry it found
NetworkFirstFallback_NoLookup(i, cached) ==
    IF cached # NoResponse
    THEN Resolve(i, [handlers[i] EXCEPT !.looked = "hit"], NoCacheResponse)
    ELSE Resolve(i, [handlers[i] EXCEPT !.looked = "miss"], NoCacheResponse)

\* networkFirstStrategy after the network failed (sw.js 150-157)
NetworkFirstFallback(i, cached) ==
    IF cached # NoResponse
    THEN Resolve(i, [handlers[i] EXCEPT !.looked = "hit"], cached)
    ELSE Resolve(i, [handlers[i] EXCEPT !.looked = "miss"], NoCacheResponse)

\* const cachedResponse = await cache.match(request)   (sw.js 150)
NetworkFirstMatch(i) ==
    LET h == handlers[i] IN
    /\ h.strategy = CACHE_STRATEGIES.NETWORK_FIRST
    /\ h.pc = "match"
    /\ \/ NetworkFirstFallback(i, Match(h.cache, h.req))
       \/ Caught(i, [h EXCEPT !.looked = "failed"], StoreFailureResponse(h.strategy))
    /\ Keep(scenario.h = i)
    /\ UNCHANGED <<swState, install, activate, cacheNames, cacheData, nextId,
                   revals, puts, clears, seeds, unhandled>>
    /\ UNCHANGED pageVars

\* faulty variant: an ok response is also written to the current store
NetworkOnlyFetch_Stores(i) ==
    LET h == handlers[i] IN
    /\ h.strategy = CACHE_STRATEGIES.NETWORK_ONLY
    /\ h.pc = "fetch"
    /\ \E outcome \in FetchOutcomes :
          IF outcome = Threw
          THEN /\ Caught(i, [h EXCEPT !.net = Threw], OfflineResponse)
               /\ UNCHANGED puts
          ELSE /\ Resolve(i, [h EXCEPT !.net = outcome], outcome)
               /\ puts' = IF Ok(outcome) /\ CACHE_NAME \in DOMAIN cacheNames
                          THEN IssuePut(cacheNames[CACHE_NAME], h.req, outcome,
                                        "strategy", i)
                          ELSE puts
    /\ Keep(scenario.h = i)
    /\ UNCHANGED <<swState, install, activate, cacheNames, cacheData, nextId,
                   revals, clears, seeds, unhandled>>
    /\ UNCHANGED pageVars

\* networkOnlyStrategy (sw.js 165-172)
NetworkOnlyFetch(i) ==
    LET h == handlers[i] IN
    /\ h.strategy = CACHE_STRATEGIES.NETWORK_ONLY
    /\ h.pc = "fetch"
    /\ \E outcome \in FetchOutcomes :
          IF outcome = Threw
          THEN Caught(i, [h EXCEPT !.net = Threw], OfflineResponse)
          ELSE Resolve(i, [h EXCEPT !.net = outcome], outcome)
    /\ Keep(scenario.h = i)
    /\ UNCHANGED <<swState, install, activate, cacheNames, cacheData, nextId,
                   revals, puts, clears, seeds, unhandled>>
    /\ UNCHANGED pageVars

(***************************************************************************)
(* cache.put issued by a strategy, a refresh or a seed is performed later, *)
(* on the cache object it was called on.                                   *)
(***************************************************************************)
\* the seed record of a put, once the put has settled
SeedSettled(p, pc) ==
    IF p.by = "seed" THEN [seeds EXCEPT ![p.h].pc = pc] ELSE seeds

\* faulty variant: a write for an identity that already has an entry is dropped
PutLands_KeepsExisting(p) ==
    /\ p \in puts
    /\ puts' = puts \ {p}
    /\ cacheData' = IF p.url \in DOMAIN cacheData[p.cache]
                    THEN cacheData
                    ELSE [cacheData EXCEPT ![p.cache] = PutKey(@, p.url, p.response)]
    /\ seeds' = SeedSettled(p, "stored")
    /\ scenario' =
          IF p.by = "seed" /\ scenario.kind = "seeding" /\ scenario.msg = p.h
          THEN [scenario EXCEPT !.kind = "seeded"]
          ELSE IF p.by = "strategy" /\ scenario.h = p.h THEN scenario
          ELSE NoScenario
    /\ UNCHANGED <<swState, install, activate, cacheNames, nextId, handlers, delivered,
                   revals, clears, unhandled>>
    /\ UNCHANGED pageVars

\* an issued cache.put is performed: the entry for the request is replaced as
\* a whole (sw.js 106, 119, 142, 188)
PutLands(p) ==
    /\ p \in puts
    /\ puts' = puts \ {p}
    /\ cacheData' = [cacheData EXCEPT ![p.cache] = PutKey(@, p.url, p.response)]
    /\ seeds' = SeedSettled(p, "stored")
    /\ scenario' =
          IF p.by = "seed" /\ scenario.kind = "seeding" /\ scenario.msg = p.h
          THEN [scenario EXCEPT !.kind = "seeded"]
          ELSE IF p.by = "strategy" /\ scenario.h = p.h THEN scenario
          ELSE NoScenario
    /\ UNCHANGED <<swState, install, activate, cacheNames, nextId, handlers, delivered,
                   revals, clears, unhandled>>
    /\ UNCHANGED pageVars

\* the put rejects (quota, storage error); nothing awaits or catches it
PutFails(p) ==
    /\ p \in puts
    /\ puts' = puts \ {p}
    /\ seeds' = SeedSettled(p, "failed")
    /\ unhandled' = TRUE
    /\ Keep(FALSE)
    /\ UNCHANGED <<swState, install, activate, cacheNames, cacheData, nextId,
                   handlers, delivered, revals, clears>>
    /\ UNCHANGED pageVars

(***************************************************************************)
(* message listener (sw.js 175-191).                                       *)
(***************************************************************************)
\* the worker receives messages once it is running
Running == swState \in {"installing", "installed", "activating", "activated"}

\* CLEAR_CACHE: caches.delete(CACHE_NAME) is called (sw.js 176-178)
\* CLEAR_CACHE: caches.delete(CACHE_NAME) is called (sw.js 176-178).  The
\* record keeps, as history, the cache object the delete unbound (cache) and
\* how many fetch events had been dispatched when the reply was posted (seen)
ClearCache ==
    /\ Running
    /\ Len(clears) + Len(seeds) < MaxMessages
    /\ clears' = Append(clears, [pc |-> "deleting", removed |-> FALSE, replies |-> <<>>,
                                 cache |-> 0, seen |-> 0])
    /\ delivered' = NoOutcome
    /\ scenario' = [kind |-> "clearing", h |-> 0, msg |-> Len(clears) + 1]
    /\ UNCHANGED <<swState, install, activate, cacheNames, cacheData, nextId,
                   handlers, revals, puts, seeds, unhandled>>
    /\ UNCHANGED pageVars

\* faulty variant: the delete is given the version tag instead of the store name
ClearDelete_OtherStore(j) ==
    /\ clears[j].pc = "deleting"
    /\ CachesDelete(CACHE_VERSION)
    /\ clears' = [clears EXCEPT ![j].pc = "resolved",
                                ![j].removed = CACHE_VERSION \in DOMAIN cacheNames,
                                ![j].cache = IF CACHE_VERSION \in DOMAIN cacheNames
                                             THEN cacheNames[CACHE_VERSION] ELSE 0]
    /\ Keep(scenario.kind = "clearing" /\ scenario.msg = j)
    /\ UNCHANGED <<swState, install, activate, handlers, delivered, revals, puts,
                   seeds, unhandled>>
    /\ UNCHANGED pageVars

\* the delete is performed and its promise resolves with whether a store was
\* removed, or it rejects; the chain has no catch
ClearDelete(j) ==
    /\ clears[j].pc = "deleting"
    /\ \/ /\ CachesDelete(CACHE_NAME)
          /\ clears' = [clears EXCEPT ![j].pc = "resolved",
                                      ![j].removed = CACHE_NAME \in DOMAIN cacheNames,
                                      ![j].cache = IF CACHE_NAME \in DOMAIN cacheNames
                                                   THEN cacheNames[CACHE_NAME] ELSE 0]
          /\ UNCHANGED unhandled
       \/ /\ clears' = [clears EXCEPT ![j].pc = "rejected"]
          /\ unhandled' = TRUE
          /\ UNCHANGED <<cacheNames, cacheData, nextId>>
    /\ Keep(scenario.kind = "clearing" /\ scenario.msg = j)
    /\ UNCHANGED <<swState, install, activate, handlers, delivered, revals, puts, seeds>>
    /\ UNCHANGED pageVars

\* the then-callback: event.ports[0].postMessage({ success: true })  (sw.js 179)
ClearReply(j) ==
    /\ clears[j].pc = "resolved"
    /\ clears' = [clears EXCEPT ![j].pc = "replied",
                                ![j].replies = Append(@, [success |-> TRUE]),
                                ![j].seen = Len(handlers)]
    /\ scenario' = IF scenario.kind = "clearing" /\ scenario.msg = j
                   THEN [scenario EXCEPT !.kind = "cleared"] ELSE NoScenario
    /\ UNCHANGED <<swState, install, activate, cacheNames, cacheData, nextId,
                   handlers, delivered, revals, puts, seeds, unhandled>>
    /\ UNCHANGED pageVars

\* CACHE_DATA: caches.open(CACHE_NAME) is called (sw.js 181-184)
CacheData(key, data) ==
    /\ Running
    /\ Len(clears) + Len(seeds) < MaxMessages
    /\ seeds' = Append(seeds, [key |-> key, data |-> data, pc |-> "opening"])
    /\ delivered' = NoOutcome
    /\ scenario' = [kind |-> "seeding", h |-> 0, msg |-> Len(seeds) + 1]
    /\ UNCHANGED <<swState, install, activate, cacheNames, cacheData, nextId,
                   handlers, revals, puts, clears, unhandled>>
    /\ UNCHANGED pageVars

\* faulty variant: the payload is passed to Response without JSON.stringify
SeedResponse_Unserialized(data) == Response(Text("[object Object]"), 200)

\* the response the then-callback builds (sw.js 185-187); status defaults to 200
SeedResponse(data) == Response(JSONstringify(data), 200)

\* the open settles; the callback builds the response and calls cache.put
\* (sw.js 184-189); a rejected open is caught by nothing
CacheDataOpen(j) ==
    /\ seeds[j].pc = "opening"
    /\ \/ /\ CachesOpen(CACHE_NAME)
          /\ puts' = IssuePut(OpenedId(CACHE_NAME), SeedRequest(seeds[j].key),
                              SeedResponse(seeds[j].data), "seed", j)
          /\ seeds' = [seeds EXCEPT ![j].pc = "put"]
          /\ UNCHANGED unhandled
       \/ /\ seeds' = [seeds EXCEPT ![j].pc = "failed"]
          /\ unhandled' = TRUE
          /\ UNCHANGED <<cacheNames, cacheData, nextId, puts>>
    /\ Keep(scenario.kind = "seeding" /\ scenario.msg = j)
    /\ UNCHANGED <<swState, install, activate, handlers, delivered, revals, clears>>
    /\ UNCHANGED pageVars

(***************************************************************************)
(* The worker.                                                             *)
(***************************************************************************)
\* the worker script has been evaluated; the origin may hold stores of earlier
\* deployments
Init ==
    /\ swState = "parsed"
    /\ install = [pc |-> "idle", cache |-> 0]
    /\ activate = [pc |-> "idle", names |-> {}, todo |-> {}, failed |-> FALSE]
    /\ \E stale \in {{}, StaleNames} :
          cacheNames = [n \in stale |-> IF n = "images" THEN 2 ELSE 1]
    /\ cacheData = [id \in {1, 2} |->
                      [u \in {Url(SelfOrigin, <<"/">>)} |-> Response(Text("old"), 200)]]
    /\ nextId = 3
    /\ handlers = <<>>
    /\ delivered = NoOutcome
    /\ revals = {}
    /\ puts = {}
    /\ clears = <<>>
    /\ seeds = <<>>
    /\ unhandled = FALSE
    /\ scenario = NoScenario
    /\ cartDoc = [exists |-> FALSE, items |-> <<>>]
    /\ calls = <<>>
    /\ state = [allOrders |-> <<>>, filteredOrders |-> <<>>, currentPage |-> 1,
                currentFilter |-> "all", currentSearch |-> <<>>]
    /\ pagination = [hidden |-> TRUE, buttons |-> {}, prev |-> FALSE, next |-> FALSE]
    /\ loading = 0

Lifecycle ==
    \/ Install
    \/ InstallOpen
    \/ InstallAddAll
    \/ InstallSkipWaiting
    \/ Activate
    \/ ActivateKeys
    \/ \E name \in StaleNames : ActivateDelete(name)
    \/ ActivateClaim
    \/ ActivateRejected

Strategies ==
    \/ \E i \in DOMAIN handlers : StrategyOpen(i)
    \/ \E i \in DOMAIN handlers : CacheFirstMatch(i)
    \/ \E i \in DOMAIN handlers : CacheFirstFetch(i)
    \/ \E i \in DOMAIN handlers : NetworkFirstFetch(i)
    \/ \E i \in DOMAIN handlers : NetworkFirstMatch(i)
    \/ \E i \in DOMAIN handlers : NetworkOnlyFetch(i)

Background ==
    \/ \E r \in revals : Revalidate(r)
    \/ \E p \in puts : PutLands(p)
    \/ \E p \in puts : PutFails(p)

\* event.data of a message event: has is FALSE for a message without data,
\* type is "" for data without a type field
NoData == [has |-> FALSE, type |-> ""]
MessageData(type) == [has |-> TRUE, type |-> type]

\* messages the listener has no branch for
OtherMessages ==
    {NoData, MessageData(""), MessageData("PING"), MessageData("clear_cache"),
     MessageData("CACHE_DATA_V2")}

\* every kind of message a page context posts
PostedMessages ==
    {MessageData("CLEAR_CACHE"), MessageData("CACHE_DATA")} \cup OtherMessages

\* faulty variant: a message the listener does not know clears the store
MessageBranch_ClearsByDefault(data) ==
    IF data.has /\ data.type = "CACHE_DATA" THEN "seed" ELSE "clear"

\* the branch of the listener a message takes (sw.js 176, 181)
MessageBranch(data) ==
    IF data.has /\ data.type = "CLEAR_CACHE" THEN "clear"
    ELSE IF data.has /\ data.type = "CACHE_DATA" THEN "seed"
    ELSE "none"

\* the listener returns without having called anything
MessageIgnored ==
    /\ Running
    /\ delivered' = NoOutcome
    /\ scenario' = [kind |-> "ignored", h |-> 0, msg |-> 0]
    /\ UNCHANGED <<swState, install, activate, cacheNames, cacheData, nextId,
                   handlers, revals, puts, clears, seeds, unhandled>>
    /\ UNCHANGED pageVars

\* the message listener is called with a message (sw.js 175-191)
MessageEvent(data) ==
    CASE MessageBranch(data) = "clear" -> ClearCache
      [] MessageBranch(data) = "seed" ->
            \E key \in SeedKeys, payload \in Payloads : CacheData(key, payload)
      [] OTHER -> MessageIgnored

\* a page context posts a message
MessageEvents == \E data \in PostedMessages : MessageEvent(data)

\* the promise chains the message listener started
Messages ==
    \/ \E j \in DOMAIN clears : ClearDelete(j)
    \/ \E j \in DOMAIN clears : ClearReply(j)
    \/ \E j \in DOMAIN seeds : CacheDataOpen(j)

\* nothing the page contexts asked for is still being worked on
Quiet ==
    /\ \A i \in DOMAIN handlers : handlers[i].pc = "settled"
    /\ revals = {}
    /\ puts = {}
    /\ \A j \in DOMAIN clears : clears[j].pc \in {"replied", "rejected"}
    /\ \A j \in DOMAIN seeds : seeds[j].pc \in {"stored", "failed"}

\* the worker serving page contexts that send requests and no messages
Next ==
    \/ Lifecycle
    \/ \E request \in Requests : FetchEvent(request, MaxHandlers)
    \/ Strategies
    \/ Background

Spec == Init /\ [][Next]_vars

\* the worker installed in a browser that holds no store of an earlier version
InitFresh == Init /\ cacheNames = EmptyMap

\* the worker serving a page context that sends requests and control
\* messages one at a time, each after the work for the one before has ended
NextControl ==
    \/ Lifecycle
    \/ \E request \in Requests \cup SeedRequests :
          Quiet /\ FetchEvent(request, MaxControlled)
    \/ Strategies
    \/ Background
    \/ Quiet /\ MessageEvents
    \/ Messages

SpecControl == Init /\ [][NextControl]_vars

\* the worker serving a page context whose messages are all of kinds the
\* listener does not know
NextOther ==
    \/ Lifecycle
    \/ \E request \in Requests : Quiet /\ FetchEvent(request, MaxControlled)
    \/ Strategies
    \/ Background
    \/ \E data \in OtherMessages : Quiet /\ MessageEvent(data)

SpecOther == Init /\ [][NextOther]_vars

\* the requests sent while the store is being cleared: cache-first (a hit
\* with its refresh before the clear, a miss after it), network-first and
\* network-only
RaceRequests ==
    { Request("GET", Url(SelfOrigin, <<"/">>)),
      Request("GET", Url(SelfOrigin, <<"/", "products">>)),
      Request("GET", Url(CdnOrigin, <<"/", "lib.js">>)) }

\* the activated worker serving page contexts that send requests and CLEAR_CACHE
\* messages with nothing waiting for anything: every await of a handler, every
\* un-awaited write and every step of the message's chain interleave freely
NextRace ==
    \/ Lifecycle
    \/ \E request \in RaceRequests : FetchEvent(request, MaxHandlers)
    \/ Strategies
    \/ Background
    \/ swState = "activated" /\ MessageEvent(MessageData("CLEAR_CACHE"))
    \/ \E j \in DOMAIN clears : ClearDelete(j)
    \/ \E j \in DOMAIN clears : ClearReply(j)

\* a first deployment: no store exists before install
SpecRace == Init /\ [][NextRace]_vars

\* the next step of handler i's strategy: the continuation of the await it is at
HandlerStep(i) ==
    /\ i \in DOMAIN handlers
    /\ \/ StrategyOpen(i)
       \/ CacheFirstMatch(i)
       \/ CacheFirstFetch(i)
       \/ NetworkFirstFetch(i)
       \/ NetworkFirstMatch(i)
       \/ NetworkOnlyFetch(i)

\* SpecRace with every awaited fetch and store operation settling at some
\* point and the continuation then being run by the event loop
SpecLive ==
    /\ Init
    /\ [][NextRace]_vars
    /\ \A i \in 1..MaxHandlers : WF_vars(HandlerStep(i))

(***************************************************************************)
(* Properties.                                                             *)
(***************************************************************************)
CF == "cache-first"
NF == "network-first"
NO == "network-only"

\* the store bound to CACHE_NAME has entry under request's identity
CurrentEntry(request) ==
    IF CACHE_NAME \in DOMAIN cacheNames
    THEN Match(cacheNames[CACHE_NAME], request)
    ELSE NoResponse

\* the provider domains a bypassed hostname contains
ProviderDomains ==
    { <<"firebasestorage", ".", "googleapis", ".", "com">>,
      <<"firebaseapp", ".", "com">>,
      <<"googleapis", ".", "com">> }

\* the request is of the BYPASS class: not a GET, or sent to a provider
BypassClass(request) ==
    \/ request.method # "GET"
    \/ \E d \in ProviderDomains : Includes(request.url.hostname, d)

\* C1: for a request of the BYPASS class the fetch listener returns without
\* respondWith: no strategy ever runs for it, it is handed no cache object,
\* and the step that dispatches it changes no store, no store content and
\* starts no refresh and no write.
C1_BypassUntouched ==
    /\ [](/\ \A i \in DOMAIN handlers :
                handlers[i].pc # "settled" => ~BypassClass(handlers[i].req)
          /\ (delivered.pc # "none" /\ BypassClass(delivered.req)) =>
                /\ delivered.pc = "passed"
                /\ delivered.cache = 0
                /\ delivered.result = NoResponse
                /\ \A r \in revals : r.h # delivered.i
                /\ \A p \in puts : p.by = "seed" \/ p.h # delivered.i)
    /\ [][(Len(handlers') > Len(handlers) /\ BypassClass(delivered'.req)
             /\ delivered'.i = Len(handlers'))
          => UNCHANGED <<cacheNames, cacheData, nextId, revals, puts>>]_vars

\* C1 witness: a GET to a provider hostname was passed through while the
\* current store holds entries
C1_Witness ==
    /\ delivered.pc = "passed"
    /\ delivered.req.method = "GET"
    /\ Includes(delivered.req.url.hostname, <<"googleapis", ".", "com">>)
    /\ CurrentEntry(Request("GET", STATIC_CACHE_URLS[1])) # NoResponse

\* the rows of the classification table
ProviderRow(origin) == \E d \in ProviderDomains : Includes(origin.hostname, d)
ReferenceRow(pathname) ==
    Includes(pathname, <<"/", "categories">>) \/ Includes(pathname, <<"/", "brands">>)
PrimaryRow(pathname) == Includes(pathname, <<"/", "products">>)

\* the ordered first-match table of the classification: a row applies when
\* none above it does
StrategyTable(method, origin, pathname) ==
    CASE method # "GET" -> BYPASS
      [] (method = "GET") /\ ProviderRow(origin) -> BYPASS
      [] (method = "GET") /\ ~ProviderRow(origin) /\ ReferenceRow(pathname) -> CF
      [] (method = "GET") /\ ~ProviderRow(origin) /\ ~ReferenceRow(pathname)
            /\ PrimaryRow(pathname) -> NF
      [] (method = "GET") /\ ~ProviderRow(origin) /\ ~ReferenceRow(pathname)
            /\ ~PrimaryRow(pathname) /\ (origin = SelfOrigin) -> CF
      [] OTHER -> NO

TableOf(request) ==
    StrategyTable(request.method, OriginOf(request.url), request.url.pathname)

\* the requests handled so far that the state still records, with the
\* strategy each was given
Classified ==
    { [req |-> handlers[i].req, strategy |-> handlers[i].strategy] :
         i \in {k \in DOMAIN handlers : handlers[k].pc # "settled"} }
    \cup (IF delivered.pc = "none" THEN {}
          ELSE {[req |-> delivered.req, strategy |-> delivered.strategy]})

\* C2 (as claimed): two requests with the same method, hostname and path get
\* the same strategy, whatever the stores hold and whatever came before.
C2_SameHostSameStrategy ==
    \A a, b \in Classified :
       (/\ a.req.method = b.req.method
        /\ a.req.url.hostname = b.req.url.hostname
        /\ a.req.url.pathname = b.req.url.pathname)
       => a.strategy = b.strategy

\* C2 (amended): whatever the stores hold and whatever was requested before,
\* the strategy a fetch event gets is the table's entry for its method, origin
\* (scheme, hostname, port) and path; so two events with the same method,
\* origin and path get the same strategy.
C2_StrategyIsTable ==
    /\ \A i \in DOMAIN handlers :
          handlers[i].pc # "settled" =>
             /\ handlers[i].strategy = TableOf(handlers[i].req)
             /\ handlers[i].strategy # BYPASS
    /\ delivered.pc # "none" =>
          /\ delivered.strategy = TableOf(delivered.req)
          /\ (delivered.pc = "passed") = (delivered.strategy = BYPASS)
    /\ \A a, b \in Classified :
          (/\ a.req.method = b.req.method
           /\ OriginOf(a.req.url) = OriginOf(b.req.url)
           /\ a.req.url.pathname = b.req.url.pathname)
          => a.strategy = b.strategy

\* C2 witness: two GETs for the same hostname and path, one to the worker's
\* origin and one to another port of the host, were given different strategies
C2_Witness ==
    \E a, b \in Classified :
       /\ a.req.method = "GET" /\ b.req.method = "GET"
       /\ a.req.url.hostname = b.req.url.hostname
       /\ a.req.url.pathname = b.req.url.pathname
       /\ OriginOf(a.req.url) = SelfOrigin
       /\ OriginOf(b.req.url) # SelfOrigin
       /\ a.strategy = CF
       /\ b.strategy = NO

\* handler i takes a step
Steps(i) == i \in DOMAIN handlers /\ handlers'[i] # handlers[i]

\* C3: a cache-first lookup that finds an entry returns exactly that entry;
\* the refresh's fetch is only started (still in flight) when the response is
\* returned, and no fetch outcome is on the path to the returned response.
C3_HitReturnsStored ==
    /\ []((delivered.strategy = CF /\ delivered.looked = "hit") =>
            /\ delivered.pc = "done"
            /\ delivered.net = NoResponse)
    /\ [][\A i \in DOMAIN handlers :
            (/\ Steps(i)
             /\ handlers[i].strategy = CF
             /\ handlers[i].pc = "match"
             /\ Match(handlers[i].cache, handlers[i].req) # NoResponse
             /\ ~(delivered'.i = i /\ delivered'.looked = "failed"))
            => /\ delivered'.i = i
               /\ delivered'.pc = "done"
               /\ delivered'.result = Match(handlers[i].cache, handlers[i].req)
               /\ \E r \in revals' : r.h = i /\ r \notin revals]_vars

\* C3 witness: a cache-first hit was answered while its refresh is in flight
C3_Witness ==
    /\ delivered.pc = "done"
    /\ delivered.strategy = CF
    /\ delivered.looked = "hit"
    /\ delivered.result = Response(Text("n1"), 200)
    /\ \E r \in revals : r.h = delivered.i

\* C4 (as claimed): once a network-first request whose fetch answered 2xx has
\* been handled, the current store holds that response under the request's
\* identity and the caller received it.
C4_FreshIsStored ==
    (/\ delivered.pc = "done"
     /\ delivered.strategy = NF
     /\ delivered.net \notin {NoResponse, Threw}
     /\ Ok(delivered.net))
    => /\ delivered.result = delivered.net
       /\ CurrentEntry(delivered.req) = delivered.net

\* the puts handler i issued that are still pending
PendingPuts(i) == {p \in puts : p.by = "strategy" /\ p.h = i}

\* C5: a cache-first request dispatched right after a CLEAR_CACHE was
\* replied to, and handled with nothing else running in between, behaves as a
\* first request on a freshly created store: no store is left by the clear,
\* its open re-creates the current store empty, its lookup misses, it fetches,
\* returns the fetch's result (503 if the fetch threw), and the response is
\* written to the re-created current store if and only if its status is 2xx.
C5_ClearThenCacheFirst ==
    scenario.kind = "cleared" =>
       IF scenario.h = 0 THEN CACHE_NAME \notin DOMAIN cacheNames
       ELSE LET i == scenario.h
                h == handlers[i]
            IN
            /\ (h.strategy = CF /\ h.pc = "open") => CACHE_NAME \notin DOMAIN cacheNames
            /\ (h.strategy = CF /\ h.pc \in {"match", "fetch"}) =>
                  /\ CACHE_NAME \in DOMAIN cacheNames
                  /\ cacheNames[CACHE_NAME] = h.cache
                  /\ cacheData[h.cache] = EmptyMap
                  /\ h.pc = "fetch" => h.looked = "miss"
            /\ (h.pc = "settled" /\ delivered.strategy = CF) =>
                  /\ delivered.i = i
                  /\ delivered.pc = "done"
                  /\ delivered.looked # "hit"
                  /\ delivered.looked = "miss" =>
                        /\ delivered.net # NoResponse
                        /\ delivered.cache = cacheNames[CACHE_NAME]
                        /\ delivered.result =
                              (IF delivered.net = Threw
                               THEN Response(Text("Offline"), 503) ELSE delivered.net)
                        /\ IF delivered.net # Threw /\ Ok(delivered.net)
                           THEN \/ PendingPuts(i) =
                                      {[cache |-> delivered.cache,
                                        url |-> delivered.req.url,
                                        response |-> delivered.net,
                                        by |-> "strategy", h |-> i]}
                                \/ /\ PendingPuts(i) = {}
                                   /\ CurrentEntry(delivered.req) = delivered.net
                           ELSE /\ PendingPuts(i) = {}
                                /\ CurrentEntry(delivered.req) = NoResponse

\* C5 witness: after a clear, a cache-first miss fetched a 2xx response and the
\* re-created store holds it
C5_Witness ==
    /\ scenario.kind = "cleared"
    /\ scenario.h = delivered.i
    /\ delivered.strategy = CF
    /\ delivered.looked = "miss"
    /\ delivered.result = Response(Text("n2"), 200)
    /\ CurrentEntry(delivered.req) = delivered.result
    /\ cacheNames[CACHE_NAME] # install.cache

\* C6: once a CACHE_DATA message with key k and payload d has been processed
\* (its put performed), a cache-first request for GET /cache/k dispatched next
\* and handled with nothing else in between finds the entry and returns a
\* status-200 response whose body parses as JSON to d.
C6_SeedRoundTrip ==
    scenario.kind = "seeded" =>
       LET seed == seeds[scenario.msg]
           request == SeedRequest(seed.key)
       IN
       /\ seed.pc = "stored"
       /\ scenario.h = 0 =>
             /\ CurrentEntry(request) # NoResponse
             /\ JSONparse(CurrentEntry(request).body) = Parsed(seed.data, <<>>)
       /\ (/\ scenario.h > 0
           /\ handlers[scenario.h].pc = "settled"
           /\ delivered.req = request
           /\ delivered.strategy = CF
           /\ delivered.cache # 0
           /\ delivered.looked # "failed") =>
             /\ delivered.i = scenario.h
             /\ delivered.pc = "done"
             /\ delivered.looked = "hit"
             /\ delivered.result.status = 200
             /\ JSONparse(delivered.result.body) = Parsed(seed.data, <<>>)

\* C6 witness: the seeded array ["x\"y", true, null] came back from a lookup
C6_Witness ==
    /\ scenario.kind = "seeded"
    /\ scenario.h = delivered.i
    /\ delivered.req = SeedRequest("k")
    /\ delivered.looked = "hit"
    /\ seeds[scenario.msg].data.t = "arr"
    /\ JSONparse(delivered.result.body).v = seeds[scenario.msg].data

\* C7: a network-first request whose fetch throws and whose store holds an
\* entry for it returns exactly that entry, with a 2xx status; the handler
\* resolves (nothing is thrown) and the step writes nothing: the stores'
\* contents and the pending writes are as before.
C7_OfflineFallback ==
    /\ []((delivered.strategy = NF /\ delivered.net = Threw /\ delivered.looked = "hit")
            => /\ delivered.pc = "done"
               /\ Ok(delivered.result))
    /\ [][\A i \in DOMAIN handlers :
            (/\ Steps(i)
             /\ handlers[i].strategy = NF
             /\ handlers[i].pc = "match"
             /\ handlers[i].net = Threw
             /\ Match(handlers[i].cache, handlers[i].req) # NoResponse
             /\ ~(delivered'.i = i /\ delivered'.looked = "failed"))
            => /\ delivered'.i = i
               /\ delivered'.pc = "done"
               /\ delivered'.result = Match(handlers[i].cache, handlers[i].req)
               /\ UNCHANGED <<cacheNames, cacheData, puts, revals>>]_vars

\* C7 witness: /products was answered from the entry install stored, offline
C7_Witness ==
    /\ delivered.req = Request("GET", Url(SelfOrigin, <<"/", "products">>))
    /\ delivered.net = Threw
    /\ delivered.looked = "hit"
    /\ delivered.result = Response(Text("n1"), 200)
    /\ CurrentEntry(delivered.req) = delivered.result

\* C8: a network-first request whose fetch throws and whose store has no
\* entry gets status 503 with the body 'Offline y sin caché'; that body is
\* given for no other cause, 'Offline' only by cache-first and network-only,
\* 'Error' only with status 500 by network-first, and the three differ.
C8_DistinctBodies ==
    delivered.pc = "done" =>
       /\ (delivered.strategy = NF /\ delivered.net = Threw /\ delivered.looked = "miss")
             => delivered.result = Response(Text("Offline y sin caché"), 503)
       /\ delivered.result.body = Text("Offline y sin caché")
             => /\ delivered.strategy = NF
                /\ delivered.looked = "miss"
                /\ delivered.result.status = 503
       /\ delivered.result.body = Text("Offline")
             => /\ delivered.strategy \in {CF, NO}
                /\ delivered.result.status = 503
                /\ delivered.looked # "hit"
       /\ delivered.result.body = Text("Error")
             => /\ delivered.strategy = NF
                /\ delivered.result.status = 500
       /\ (delivered.strategy \in {CF, NO} /\ delivered.net = Threw)
             => delivered.result.body = Text("Offline")

\* C8 witness: network-first, fetch threw, no entry
C8_Witness ==
    /\ delivered.pc = "done"
    /\ delivered.strategy = NF
    /\ delivered.net = Threw
    /\ delivered.looked = "miss"
    /\ delivered.result.status = 503
    /\ delivered.result.body = Text("Offline y sin caché")

\* C9: once the activate listener's chain has run to its end, no store with a
\* name other than CACHE_NAME is left, and the steps of activation leave the
\* current store bound and every cache's entries as they were; if no
\* CLEAR_CACHE was sent, the stores' names are exactly {CACHE_NAME}.
C9_ActivationEvicts ==
    /\ [](activate.pc = "done" =>
            /\ DOMAIN cacheNames \subseteq {CACHE_NAME}
            /\ clears = <<>> => DOMAIN cacheNames = {CACHE_NAME})
    /\ [][activate' # activate =>
            /\ cacheData' = cacheData
            /\ CACHE_NAME \in DOMAIN cacheNames =>
                  /\ CACHE_NAME \in DOMAIN cacheNames'
                  /\ cacheNames'[CACHE_NAME] = cacheNames[CACHE_NAME]]_vars

\* C9 witness: activation found two stale stores beside the current one and
\* left the current one, with the three entries install stored
C9_Witness ==
    /\ activate.pc = "done"
    /\ activate.names = StaleNames \cup {CACHE_NAME}
    /\ DOMAIN cacheNames = {CACHE_NAME}
    /\ \A k \in DOMAIN STATIC_CACHE_URLS :
          CurrentEntry(Request("GET", STATIC_CACHE_URLS[k])) # NoResponse

\* C10: whatever fails (the fetch, the store's open, the lookup, a write), a
\* mediated request's strategy resolves with a response and never rejects;
\* the response is the network's, a cached one, or a synthesized 500 or 503.
C10_AlwaysResponds ==
    /\ delivered.pc \in {"none", "passed", "done"}
    /\ delivered.pc = "done" =>
          /\ delivered.result \notin {NoResponse, Threw}
          /\ \/ delivered.result = delivered.net
             \/ delivered.looked = "hit"
             \/ delivered.result.status \in {500, 503}

\* C10 witness: the fetch threw and then the lookup failed; the answer is 500
C10_Witness ==
    /\ delivered.pc = "done"
    /\ delivered.strategy = NF
    /\ delivered.net = Threw
    /\ delivered.looked = "failed"
    /\ delivered.result.status = 500
    /\ unhandled

\* the put cache-first or network-first issues for handler h's request
StrategyPut(i, h, response) ==
    [cache |-> h.cache, url |-> h.req.url, response |-> response,
     by |-> "strategy", h |-> i]

\* C11: on a cache-first miss the handler returns only when its fetch has
\* answered, and returns that response as it is; the step issues the write
\* of the response under the request's identity if and only if the status is
\* 2xx and writes nothing itself; a request that was alone and got a non-2xx
\* response leaves the store without an entry for its identity.
C11_MissFetchesAndStoresOk ==
    /\ []((delivered.strategy = CF /\ delivered.looked = "miss"
              /\ delivered.net \notin {NoResponse, Threw})
            => /\ delivered.pc = "done"
               /\ delivered.result = delivered.net
               /\ (~Ok(delivered.net)) =>
                     /\ PendingPuts(delivered.i) = {}
                     /\ (Len(handlers) = 1 /\ CACHE_NAME \in DOMAIN cacheNames)
                           => CurrentEntry(delivered.req) = NoResponse)
    /\ [][\A i \in DOMAIN handlers :
            (/\ Steps(i)
             /\ handlers[i].strategy = CF
             /\ handlers[i].pc = "fetch"
             /\ delivered'.net # Threw)
            => /\ delivered'.i = i
               /\ delivered'.looked = "miss"
               /\ delivered'.result = delivered'.net
               /\ puts' = IF Ok(delivered'.net)
                          THEN puts \cup {StrategyPut(i, handlers[i], delivered'.net)}
                          ELSE puts
               /\ UNCHANGED <<cacheNames, cacheData>>]_vars

\* C11 witness: the only request so far, a cache-first miss, was answered 404
\* by the network; the 404 was returned and the store has no entry for it
C11_Witness ==
    /\ Len(handlers) = 1
    /\ delivered.strategy = CF
    /\ delivered.looked = "miss"
    /\ delivered.net = Response(Text("NotFound"), 404)
    /\ delivered.result = delivered.net
    /\ CACHE_NAME \in DOMAIN cacheNames
    /\ CurrentEntry(delivered.req) = NoResponse

\* C12: a cache-first miss whose fetch throws is answered by a synthesized
\* response of status 503; the step issues no write and changes no store, and
\* a request that was alone leaves the store without an entry for its identity.
C12_MissOffline ==
    /\ []((delivered.strategy = CF /\ delivered.looked = "miss"
              /\ delivered.net = Threw)
            => /\ delivered.pc = "done"
               /\ delivered.result.status = 503
               /\ delivered.result \notin NetworkResponses
               /\ PendingPuts(delivered.i) = {}
               /\ (Len(handlers) = 1 /\ CACHE_NAME \in DOMAIN cacheNames)
                     => CurrentEntry(delivered.req) = NoResponse)
    /\ [][\A i \in DOMAIN handlers :
            (/\ Steps(i)
             /\ handlers[i].strategy = CF
             /\ handlers[i].pc = "fetch"
             /\ delivered'.net = Threw)
            => /\ delivered'.i = i
               /\ delivered'.looked = "miss"
               /\ delivered'.result.status = 503
               /\ UNCHANGED <<cacheNames, cacheData, puts, revals>>]_vars

\* C12 witness: the only request so far, a cache-first miss, found the
\* network down and got 503 while the store holds nothing for it
C12_Witness ==
    /\ Len(handlers) = 1
    /\ delivered.strategy = CF
    /\ delivered.looked = "miss"
    /\ delivered.net = Threw
    /\ delivered.result.status = 503
    /\ CACHE_NAME \in DOMAIN cacheNames
    /\ CurrentEntry(delivered.req) = NoResponse

\* C13: in network-first a network response whose status is not 2xx is never
\* returned and never written; when the store can be read the handler
\* returns the entry stored for the identity if there is one and the 503
\* 'Offline y sin caché' response otherwise.
C13_NonOkFallsBack ==
    /\ []((delivered.strategy = NF /\ delivered.net \notin {NoResponse, Threw}
              /\ ~Ok(delivered.net))
            => /\ delivered.pc = "done"
               /\ delivered.result # delivered.net
               /\ PendingPuts(delivered.i) = {}
               /\ delivered.looked \in {"hit", "miss", "failed"}
               /\ delivered.looked = "hit" => Ok(delivered.result)
               /\ delivered.looked = "miss" =>
                     delivered.result = Response(Text("Offline y sin caché"), 503))
    /\ [](\A p \in puts : p.by = "strategy" => Ok(p.response))
    /\ [][\A i \in DOMAIN handlers :
            (/\ Steps(i)
             /\ handlers[i].strategy = NF
             /\ handlers[i].net \notin {NoResponse, Threw}
             /\ ~(delivered'.i = i /\ delivered'.looked = "failed"))
            => /\ handlers[i].pc = "match"
               /\ ~Ok(handlers[i].net)
               /\ delivered'.i = i
               /\ delivered'.result =
                     (IF Match(handlers[i].cache, handlers[i].req) # NoResponse
                      THEN Match(handlers[i].cache, handlers[i].req)
                      ELSE Response(Text("Offline y sin caché"), 503))
               /\ UNCHANGED <<cacheNames, cacheData, puts, revals>>]_vars

\* C13 witness: /products answered 404 by the network was served from the
\* entry install stored
C13_Witness ==
    /\ delivered.strategy = NF
    /\ delivered.net = Response(Text("NotFound"), 404)
    /\ delivered.looked = "hit"
    /\ delivered.result = Response(Text("n1"), 200)
    /\ CurrentEntry(delivered.req) = delivered.result

\* the handler could not open the store or could not read it
StoreFailed(outcome) ==
    /\ outcome.strategy \in {CF, NF}
    /\ outcome.pc = "done"
    /\ (outcome.cache = 0 \/ outcome.looked = "failed")

\* C14 (as claimed): a cache-first or network-first handler that cannot open
\* or read the store answers with a synthesized response of status 500, and a
\* synthesized 503 is given only when the network or the entry is missing.
C14_StoreFailureIs500 ==
    (delivered.pc = "done" /\ delivered.strategy \in {CF, NF}) =>
       /\ StoreFailed(delivered) => delivered.result.status = 500
       /\ (delivered.result.status = 503 /\ delivered.result # delivered.net
              /\ delivered.looked # "hit") => ~StoreFailed(delivered)
       /\ delivered.result.status = 500 => StoreFailed(delivered)

\* C15: a network-only handler is never given a cache object and never looks
\* anything up; neither its dispatch nor its step changes the stores' names or
\* contents or starts a write or a refresh; it returns the network's response
\* as it is, whatever the status, and the 503 'Offline' response if the fetch
\* throws.
C15_NetworkOnlyNoStore ==
    /\ [](/\ \A i \in DOMAIN handlers :
                handlers[i].strategy = NO =>
                   /\ handlers[i].pc = "fetch"
                   /\ handlers[i].cache = 0
                   /\ handlers[i].looked = "none"
          /\ delivered.strategy = NO =>
                /\ delivered.pc = "done"
                /\ delivered.cache = 0
                /\ delivered.looked = "none"
                /\ delivered.net # NoResponse
                /\ delivered.result = (IF delivered.net = Threw
                                       THEN Response(Text("Offline"), 503)
                                       ELSE delivered.net)
                /\ \A p \in puts : p.by = "seed" \/ p.h # delivered.i
                /\ \A r \in revals : r.h # delivered.i)
    /\ [][\A i \in DOMAIN handlers' :
            (/\ i \notin DOMAIN handlers \/ Steps(i)
             /\ (IF i \in DOMAIN handlers THEN handlers[i] ELSE handlers'[i]).strategy = NO)
            => UNCHANGED <<cacheNames, cacheData, nextId, puts, revals>>]_vars

\* C15 witness: a cross-origin script request got the network's 404 as it is
\* while the store holds the installed entries
C15_Witness ==
    /\ delivered.strategy = NO
    /\ delivered.req = Request("GET", Url(CdnOrigin, <<"/", "lib.js">>))
    /\ delivered.net = Response(Text("NotFound"), 404)
    /\ delivered.result = delivered.net
    /\ CurrentEntry(Request("GET", STATIC_CACHE_URLS[1])) # NoResponse
    /\ CurrentEntry(delivered.req) = NoResponse

\* C16: the refresh started on a cache-first hit is not awaited: the caller
\* has its cached response while the refresh is in flight, and when the
\* refresh's fetch settles, or its write is performed or fails, nothing
\* returned or running is touched.  A refresh whose fetch throws or answers
\* non-2xx writes nothing; a 2xx refresh issues one write, which replaces the
\* entry of its identity in the cache object the hit was read from.
C16_RefreshIsDetached ==
    /\ [](/\ \A p \in puts : p.by = "revalidation" => Ok(p.response)
          /\ (delivered.strategy = CF /\ delivered.looked = "hit") =>
                /\ delivered.pc = "done"
                /\ Ok(delivered.result)
                /\ delivered.net = NoResponse)
    /\ [][\A r \in revals \ revals' :
            /\ UNCHANGED <<delivered, handlers, cacheNames, cacheData>>
            /\ \/ puts' = puts
               \/ \E response \in NetworkResponses :
                     /\ Ok(response)
                     /\ puts' = puts \cup {[cache |-> r.cache, url |-> r.req.url,
                                            response |-> response,
                                            by |-> "revalidation", h |-> r.h]}]_vars
    /\ [][\A p \in puts \ puts' :
            p.by = "revalidation" =>
               /\ UNCHANGED <<delivered, handlers, cacheNames, revals>>
               /\ \/ cacheData' = cacheData
                  \/ cacheData' = [cacheData EXCEPT ![p.cache] =
                                      PutKey(@, p.url, p.response)]]_vars

\* C16 witness: the caller was given the installed entry n1; afterwards the
\* refresh fetched n2 and its write replaced the entry
C16_Witness ==
    /\ delivered.strategy = CF
    /\ delivered.looked = "hit"
    /\ delivered.result = Response(Text("n1"), 200)
    /\ \A r \in revals : r.h # delivered.i
    /\ puts = {}
    /\ CurrentEntry(delivered.req) = Response(Text("n2"), 200)

\* C17 (as claimed): every CLEAR_CACHE message gets exactly one reply on its
\* port, {success: b}, where b tells whether the deletion removed the store:
\* false when nothing was removed or the deletion failed.
C17_ReplyReportsDeletion ==
    \A j \in DOMAIN clears :
       /\ clears[j].pc = "replied" =>
             clears[j].replies = <<[success |-> clears[j].removed]>>
       /\ clears[j].pc = "rejected" =>
             clears[j].replies = <<[success |-> FALSE]>>

\* C18: a message of a kind the listener does not know (no data, no type,
\* another type) starts nothing: no deletion and no seeding is ever under way,
\* no reply is posted, no promise of the worker rejects because of it, and
\* the step that receives it leaves the stores' names and contents, the
\* pending writes and the running handlers as they were.
C18_OtherMessagesIgnored ==
    /\ [](/\ clears = <<>>
          /\ seeds = <<>>
          /\ \A p \in puts : p.by # "seed")
    /\ [][scenario'.kind = "ignored" =>
            UNCHANGED <<swState, install, activate, cacheNames, cacheData, nextId,
                        handlers, revals, puts, clears, seeds, unhandled>>]_vars

\* C18 witness: an unknown message arrived at the activated worker, whose
\* store still holds the installed entries
C18_Witness ==
    /\ scenario.kind = "ignored"
    /\ swState = "activated"
    /\ Len(handlers) = 1
    /\ clears = <<>>
    /\ seeds = <<>>
    /\ ~unhandled
    /\ \A k \in DOMAIN STATIC_CACHE_URLS :
          CurrentEntry(Request("GET", STATIC_CACHE_URLS[k])) # NoResponse

\* C19 (as claimed): at every point from the end of install on, whatever
\* requests and messages arrive, a store named CACHE_NAME exists, and once
\* activation has completed no store with another name exists.
C19_OneCurrentStore ==
    install.pc = "done" =>
       /\ CACHE_NAME \in DOMAIN cacheNames
       /\ activate.pc = "done" => DOMAIN cacheNames = {CACHE_NAME}

\* C20 (as claimed): once the pre-population of the install listener has
\* ended, with every manifest URL stored or with one of them failing, the
\* worker calls skipWaiting.
C20_SkipWaitingAlways ==
    (install.cache # 0 /\ install.pc # "addAll") =>
       install.pc \in {"skipWaiting", "done"}

\* the manifest URLs the store of the install listener holds
ManifestStored ==
    {k \in DOMAIN STATIC_CACHE_URLS :
        STATIC_CACHE_URLS[k] \in DOMAIN cacheData[install.cache]}

\* C21: install pre-population is all-or-nothing.  When the fetch of a
\* manifest URL throws or answers with a non-ok status, the step in which
\* addAll fails changes no store and the store that install opened holds no
\* entry; when every URL answered ok, the current store holds all three
\* entries from the end of addAll on.
C21_AllOrNothing ==
    /\ [][(install.pc = "addAll" /\ install'.pc = "failed") =>
             UNCHANGED <<cacheNames, cacheData>>]_vars
    /\ []((install.pc = "failed" /\ install.cache # 0) =>
             /\ ManifestStored = {}
             /\ cacheData[install.cache] = EmptyMap)
    /\ [](install.pc \in {"skipWaiting", "done"} =>
             /\ CACHE_NAME \in DOMAIN cacheNames
             /\ cacheNames[CACHE_NAME] = install.cache
             /\ ManifestStored = DOMAIN STATIC_CACHE_URLS)

\* C21 witness: addAll failed in an install that had opened the store, next to
\* the stores of earlier deployments, and the opened store is empty
C21_Witness ==
    /\ install.pc = "failed"
    /\ install.cache # 0
    /\ swState = "redundant"
    /\ CACHE_NAME \in DOMAIN cacheNames
    /\ cacheData[cacheNames[CACHE_NAME]] = EmptyMap
    /\ StaleNames \subseteq DOMAIN cacheNames

\* clients.claim() has been called by the activate listener
Claimed == activate.pc = "done"

\* C22: clients.claim() is called only after every deletion the activate
\* listener issued has been performed: at the step that claims, and from then
\* on, no deletion is outstanding, none has failed, and no store found by
\* caches.keys() under a name other than CACHE_NAME exists; after a failed
\* deletion the page contexts are never claimed.
C22_ClaimAfterDeletions ==
    /\ [][(~Claimed /\ Claimed') =>
             /\ activate.pc = "deleting"
             /\ activate.todo = {}
             /\ ~activate.failed
             /\ DOMAIN cacheNames \cap StoresToDelete(activate.names) = {}]_vars
    /\ [](Claimed =>
             /\ activate.todo = {}
             /\ DOMAIN cacheNames \subseteq {CACHE_NAME})
    /\ [](activate.failed => ~Claimed)
    /\ [][activate.failed => activate'.failed]_vars

\* C22 witness: both stale stores were found and deleted, then the contexts
\* were claimed, and no request has been handled yet
C22_Witness ==
    /\ Claimed
    /\ swState = "activated"
    /\ StoresToDelete(activate.names) = StaleNames
    /\ DOMAIN cacheNames = {CACHE_NAME}
    /\ handlers = <<>>

\* the entry of url in cache object id is new or another one after the step
EntryChanges(id, url) ==
    /\ url \in DOMAIN cacheData'[id]
    /\ url \in DOMAIN cacheData[id] => cacheData'[id][url] # cacheData[id][url]

\* the writes that leave the pending ones in the step
Completing == puts \ puts'

\* the request two handlers race on: network-first, absent from the manifest
RaceRequest == Request("GET", Url(CdnOrigin, <<"/", "products">>))

\* C23: with handlers running concurrently, a write that completes sets the
\* entry of its identity to exactly its own response; an entry never
\* disappears and is set by nothing but a completing write for its identity
\* (or install's addAll).  So after two handlers for one identity have both
\* written, the entry is the response of the write that completed last.
C23_LastWriteWins ==
    /\ [][~unhandled' =>
             \A p \in Completing :
                /\ p.url \in DOMAIN cacheData'[p.cache]
                /\ cacheData'[p.cache][p.url] = p.response]_vars
    /\ [][\A id \in DOMAIN cacheData :
             /\ id \in DOMAIN cacheData'
             /\ DOMAIN cacheData[id] \subseteq DOMAIN cacheData'[id]
             /\ \A url \in DOMAIN cacheData'[id] :
                   EntryChanges(id, url) =>
                      \/ \E p \in Completing :
                            /\ p.cache = id
                            /\ p.url = url
                            /\ p.response = cacheData'[id][url]
                      \/ /\ install.pc = "addAll"
                         /\ id = install.cache]_vars

\* C23 witness: two handlers for the same identity both fetched and wrote;
\* the write carrying n1 has completed and made the entry, the write carrying
\* n2 is still to complete
C23_Witness ==
    /\ Len(handlers) = 2
    /\ \A i \in DOMAIN handlers : handlers[i].pc = "settled"
    /\ ~unhandled
    /\ CurrentEntry(RaceRequest) = Response(Text("n1"), 200)
    /\ \E p \in puts :
          /\ p.by = "strategy"
          /\ p.cache = cacheNames[CACHE_NAME]
          /\ p.url = RaceRequest.url
          /\ p.response = Response(Text("n2"), 200)

\* C24: a network fetch that throws leaves the store as it was.  The step in
\* which a handler's fetch throws, and every later step of that handler,
\* changes no store name and no entry and issues no write; the step that ends
\* a background refresh changes no store name and no entry, and the only
\* write it can issue carries an ok response, so none is issued for a throw.
C24_FailedFetchKeepsStore ==
    /\ [][\A i \in DOMAIN handlers :
             (/\ handlers[i].pc = "fetch"
              /\ \/ handlers'[i].net = Threw
                 \/ /\ handlers'[i].pc = "settled"
                    /\ delivered'.i = i
                    /\ delivered'.net = Threw) =>
                UNCHANGED <<cacheNames, cacheData, puts>>]_vars
    /\ [][\A i \in DOMAIN handlers :
             (handlers[i].net = Threw /\ handlers'[i] # handlers[i]) =>
                UNCHANGED <<cacheNames, cacheData, puts>>]_vars
    /\ [][(revals' # revals /\ revals' \subseteq revals) =>
             /\ UNCHANGED <<cacheNames, cacheData>>
             /\ \A p \in puts' \ puts : p.response # Threw /\ Ok(p.response)]_vars
    /\ [](\A i \in DOMAIN handlers :
             handlers[i].net = Threw =>
                ~\E p \in puts : p.by = "strategy" /\ p.h = i)

\* C24 witness: a network-first request found the network down and was
\* answered from the entry an earlier handler had written; the entry is
\* still that one and no write is pending
C24_Witness ==
    /\ delivered.req = RaceRequest
    /\ delivered.net = Threw
    /\ delivered.looked = "hit"
    /\ delivered.result = Response(Text("n2"), 200)
    /\ CurrentEntry(RaceRequest) = Response(Text("n2"), 200)
    /\ puts = {}
    /\ revals = {}
    /\ ~unhandled

\* a response with a 2xx status that is none of the synthesized fallbacks
Success(response) ==
    /\ response.status \in 200..299
    /\ response \notin {OfflineResponse, NoCacheResponse, ErrorResponse}

\* C25: every entry of the current store is a response that had a 2xx status
\* when it was written or a payload seeded by CACHE_DATA, and every write a
\* strategy or a refresh has issued carries a 2xx response: no non-2xx
\* response and no synthesized 500 or 503 is ever written.
C25_OnlySuccessStored ==
    /\ CACHE_NAME \in DOMAIN cacheNames =>
          \A url \in DOMAIN cacheData[cacheNames[CACHE_NAME]] :
             LET entry == cacheData[cacheNames[CACHE_NAME]][url] IN
             \/ Success(entry)
             \/ \E data \in Payloads : entry = SeedResponse(data)
    /\ \A p \in puts : p.by # "seed" => Success(p.response)

\* C25 witness: a cache-first miss was answered 404 by the network and the
\* page got the 404, while the current store holds the manifest entries and
\* a seeded payload and nothing for the request
C25_Witness ==
    /\ delivered.strategy = CF
    /\ delivered.looked = "miss"
    /\ delivered.result = Response(Text("NotFound"), 404)
    /\ CurrentEntry(delivered.req) = NoResponse
    /\ puts = {}
    /\ \E key \in SeedKeys, data \in Payloads :
          CurrentEntry(SeedRequest(key)) = SeedResponse(data)
    /\ \A k \in DOMAIN STATIC_CACHE_URLS :
          CurrentEntry(Request("GET", STATIC_CACHE_URLS[k])) # NoResponse

\* the current store holds a payload seeded under key
Seeded(key) ==
    \E data \in Payloads : CurrentEntry(SeedRequest(key)) = SeedResponse(data)

\* C26 (as claimed): an entry seeded by CACHE_DATA keeps its payload through
\* every step that neither unbinds the current store (CLEAR_CACHE) nor
\* completes a later CACHE_DATA write for the same key; the strategies and
\* their refreshes never replace it.
C26_SeedPersists ==
    [][\A key \in SeedKeys :
          (/\ Seeded(key)
           /\ CACHE_NAME \in DOMAIN cacheNames'
           /\ ~\E p \in Completing :
                  p.by = "seed" /\ p.url = SeedRequest(key).url) =>
             CurrentEntry(SeedRequest(key))' = CurrentEntry(SeedRequest(key))]_vars

\* the CLEAR_CACHE messages whose deletion removed a store and whose reply
\* has been posted
Cleared == {j \in DOMAIN clears : clears[j].pc = "replied" /\ clears[j].removed}

\* handler i was dispatched after the reply to clear j
StartedAfter(i, j) == i > clears[j].seen

\* C27: once the reply to a CLEAR_CACHE has been posted, the cache object it
\* unbound is never the current store again; a request that starts after the
\* reply reads and is answered only from a cache object created after the
\* deletion, which was created empty and receives only the writes issued on
\* it; the writes of handlers and refreshes that opened the store before the
\* deletion land on the unbound object, whenever they complete.
C27_NoStaleAfterClear ==
    /\ [](\A j \in Cleared :
             /\ \A name \in DOMAIN cacheNames : cacheNames[name] # clears[j].cache
             /\ \A i \in DOMAIN handlers :
                   (StartedAfter(i, j) /\ handlers[i].cache # 0) =>
                      handlers[i].cache > clears[j].cache
             /\ (StartedAfter(delivered.i, j) /\ delivered.looked = "hit") =>
                   delivered.cache > clears[j].cache
             /\ \A p \in puts :
                   (p.by = "strategy" /\ StartedAfter(p.h, j)) =>
                      p.cache > clears[j].cache)
    /\ [][/\ \A id \in DOMAIN cacheData' \ DOMAIN cacheData :
                cacheData'[id] = EmptyMap /\ id = nextId
          /\ \A id \in DOMAIN cacheData :
                \A url \in DOMAIN cacheData'[id] :
                   EntryChanges(id, url) =>
                      \/ \E p \in Completing : p.cache = id /\ p.url = url
                      \/ install.pc = "addAll" /\ id = install.cache
          /\ \A p \in puts' \ puts :
                \/ p.by = "strategy" /\ p.cache = handlers[p.h].cache
                \/ p.by = "revalidation"
                      /\ \E r \in revals \ revals' : r.cache = p.cache
          /\ \A r \in revals' \ revals : r.cache = handlers[r.h].cache]_vars

\* C27 witness: a network-first handler opened the store and fetched n2, the
\* store was cleared and the reply posted, the handler's write completed on
\* the unbound object, and the same request, sent after the reply and finding
\* the network down, found nothing in the store
C27_Witness ==
    /\ Cleared # {}
    /\ \E j \in Cleared :
          /\ clears[j].seen = 1
          /\ delivered.i = 2
          /\ delivered.req = Request("GET", Url(SelfOrigin, <<"/", "products">>))
          /\ delivered.net = Threw
          /\ delivered.looked = "miss"
          /\ delivered.result = NoCacheResponse
          /\ cacheData[clears[j].cache][delivered.req.url] = Response(Text("n2"), 200)
    /\ puts = {}
    /\ ~unhandled

\* how far along its strategy a handler is: open, then the lookup and the
\* fetch in the strategy's order, then settled
Rank(h) ==
    CASE h.pc = "settled" -> 3
      [] h.pc = "open" -> 0
      [] h.pc = "fetch" -> IF h.strategy = CACHE_STRATEGIES.NETWORK_FIRST THEN 1 ELSE 2
      [] h.pc = "match" -> IF h.strategy = CACHE_STRATEGIES.NETWORK_FIRST THEN 2 ELSE 1

\* C28: with every awaited operation settling and its continuation being run,
\* every mediated request is answered, whatever the other handlers and the
\* CLEAR_CACHE messages do.  Every step of a handler moves it strictly forward
\* through open, lookup, fetch (at most two store operations and one fetch on
\* the way to the response), and the step that ends it gives the page a
\* response.
C28_EveryRequestAnswered ==
    /\ \A i \in 1..MaxHandlers :
          (i \in DOMAIN handlers) ~> (i \in DOMAIN handlers /\ handlers[i].pc = "settled")
    /\ [][\A i \in DOMAIN handlers :
             handlers'[i] # handlers[i] =>
                /\ Rank(handlers'[i]) > Rank(handlers[i])
                /\ handlers'[i].pc = "settled" =>
                      /\ delivered'.i = i
                      /\ delivered'.pc = "done"
                      /\ delivered'.result \notin {NoResponse, Threw}]_vars

\* C28 witness: a network-first request went through open, a fetch that
\* threw and the lookup, and was answered, while another handler was still
\* running and a CLEAR_CACHE was between its deletion and its reply
C28_Witness ==
    /\ delivered.strategy = NF
    /\ delivered.net = Threw
    /\ delivered.looked \in {"hit", "miss"}
    /\ delivered.pc = "done"
    /\ \E i \in DOMAIN handlers : handlers[i].pc \in {"open", "match", "fetch"}
    /\ \E j \in DOMAIN clears : clears[j].pc = "resolved"

(***************************************************************************)
(* The cart of one user (src/lib/db/cart.ts).  The Firestore document      *)
(* cart/<userId> is cartDoc; every await of addToCart, updateCartItem,     *)
(* getCart and removeFromCart is a step of its own, so calls interleave    *)
(* between a read and the write computed from it.                          *)
(***************************************************************************)
MaxCalls == 2
MaxQuantity == 2
Stock == 2

\* products.ts getProductById: the products that exist, and one that does not
ProductIds == {"p1", "p2"}
MissingProduct == "gone"

\* product.stock || 0
AvailableStock(productId) == IF productId \in ProductIds THEN Stock ELSE 0

CartItem(productId, quantity) == [productId |-> productId, quantity |-> quantity]

\* items.findIndex((item) => item.productId === productId), 0 standing for -1
FindIndex(items, productId) ==
    IF \E k \in DOMAIN items : items[k].productId = productId
    THEN CHOOSE k \in DOMAIN items :
            /\ items[k].productId = productId
            /\ \A m \in 1..(k - 1) : items[m].productId # productId
    ELSE 0

\* existingItem?.quantity || 0
CurrentQuantity(items, productId) ==
    IF FindIndex(items, productId) = 0 THEN 0
    ELSE items[FindIndex(items, productId)].quantity

\* items.filter((item) => item.productId !== productId)
RECURSIVE Without(_, _)
Without(items, productId) ==
    IF items = <<>> THEN <<>>
    ELSE IF Head(items).productId = productId THEN Without(Tail(items), productId)
    ELSE <<Head(items)>> \o Without(Tail(items), productId)

Call(op, productId, quantity, pc) ==
    [op |-> op, productId |-> productId, quantity |-> quantity, pc |-> pc,
     availableStock |-> 0, write |-> "none", items |-> <<>>, result |-> "pending"]

Return(c, result) ==
    calls' = [calls EXCEPT ![c].pc = "done", ![c].result = result]

\* addToCart is called: it awaits getProductById first
AddToCart(productId, quantity) ==
    /\ Len(calls) < MaxCalls
    /\ calls' = Append(calls, Call("add", productId, quantity, "product"))
    /\ UNCHANGED <<cartDoc, state, pagination, loading>>
    /\ UNCHANGED workerVars

\* updateCartItem is called: a quantity of 0 or less goes to removeFromCart
UpdateCartItem(productId, quantity) ==
    /\ Len(calls) < MaxCalls
    /\ calls' = Append(calls, Call("update", productId, quantity,
                                   IF quantity <= 0 THEN "remove" ELSE "product"))
    /\ UNCHANGED <<cartDoc, state, pagination, loading>>
    /\ UNCHANGED workerVars

\* getProductById resolves; updateCartItem validates the stock here
ProductRead(c) ==
    LET call == calls[c] IN
    /\ call.pc = "product"
    /\ IF call.productId \notin ProductIds
       THEN Return(c, "Producto no encontrado")
       ELSE IF call.op = "update" /\ AvailableStock(call.productId) < call.quantity
       THEN Return(c, "Stock insuficiente")
       ELSE calls' = [calls EXCEPT
                ![c].availableStock = AvailableStock(call.productId),
                ![c].pc = IF call.op = "add" THEN "getCart" ELSE "getDoc"]
    /\ UNCHANGED <<cartDoc, state, pagination, loading>>
    /\ UNCHANGED workerVars

\* the validation of addToCart against the cart that getCart returned
Validate(c, items) ==
    LET call == calls[c] IN
    IF call.availableStock < CurrentQuantity(items, call.productId) + call.quantity
    THEN Return(c, "Stock insuficiente")
    ELSE calls' = [calls EXCEPT ![c].pc = "getDoc"]

\* getCart's getDoc resolves: an existing cart is returned and validated
\* against, a missing one is about to be created
GetCart(c) ==
    /\ calls[c].pc = "getCart"
    /\ IF cartDoc.exists
       THEN Validate(c, cartDoc.items)
       ELSE calls' = [calls EXCEPT ![c].pc = "create"]
    /\ UNCHANGED <<cartDoc, state, pagination, loading>>
    /\ UNCHANGED workerVars

\* getCart's setDoc of the empty cart lands, then addToCart validates
GetCartCreate(c) ==
    /\ calls[c].pc = "create"
    /\ cartDoc' = [exists |-> TRUE, items |-> <<>>]
    /\ Validate(c, <<>>)
    /\ UNCHANGED <<state, pagination, loading>>
    /\ UNCHANGED workerVars

\* the items addToCart computes from its second read of the document
Added(items, productId, quantity) ==
    IF FindIndex(items, productId) > 0
    THEN [items EXCEPT ![FindIndex(items, productId)].quantity = @ + quantity]
    ELSE Append(items, CartItem(productId, quantity))

\* the second getDoc of addToCart resolves and the write is issued
AddGetDoc(c) ==
    LET call == calls[c] IN
    /\ call.op = "add"
    /\ call.pc = "getDoc"
    /\ calls' = [calls EXCEPT
          ![c].pc = "write",
          ![c].write = IF cartDoc.exists THEN "updateDoc" ELSE "setDoc",
          ![c].items = IF cartDoc.exists
                       THEN Added(cartDoc.items, call.productId, call.quantity)
                       ELSE <<CartItem(call.productId, call.quantity)>>]
    /\ UNCHANGED <<cartDoc, state, pagination, loading>>
    /\ UNCHANGED workerVars

\* the getDoc of updateCartItem resolves
UpdateGetDoc(c) ==
    LET call == calls[c] IN
    /\ call.op = "update"
    /\ call.pc = "getDoc"
    /\ IF ~cartDoc.exists
       THEN Return(c, "Cart not found")
       ELSE IF FindIndex(cartDoc.items, call.productId) = 0
       THEN Return(c, "Item not found in cart")
       ELSE calls' = [calls EXCEPT
                ![c].pc = "write",
                ![c].write = "updateDoc",
                ![c].items = [cartDoc.items EXCEPT
                    ![FindIndex(cartDoc.items, call.productId)].quantity =
                        call.quantity]]
    /\ UNCHANGED <<cartDoc, state, pagination, loading>>
    /\ UNCHANGED workerVars

\* the getDoc of removeFromCart resolves
RemoveGetDoc(c) ==
    LET call == calls[c] IN
    /\ call.pc = "remove"
    /\ IF ~cartDoc.exists
       THEN Return(c, "success")
       ELSE calls' = [calls EXCEPT
                ![c].pc = "write",
                ![c].write = "updateDoc",
                ![c].items = Without(cartDoc.items, call.productId)]
    /\ UNCHANGED <<cartDoc, state, pagination, loading>>
    /\ UNCHANGED workerVars

\* updateDoc or setDoc lands: the items computed from the earlier read
\* replace whatever the document holds now
Write(c) ==
    LET call == calls[c] IN
    /\ call.pc = "write"
    /\ IF call.write = "updateDoc" /\ ~cartDoc.exists
       THEN /\ Return(c, "error")
            /\ UNCHANGED cartDoc
       ELSE /\ cartDoc' = [exists |-> TRUE, items |-> call.items]
            /\ Return(c, "success")
    /\ UNCHANGED <<state, pagination, loading>>
    /\ UNCHANGED workerVars

NextCart ==
    \/ \E productId \in ProductIds \cup {MissingProduct}, quantity \in 1..MaxQuantity :
          AddToCart(productId, quantity)
    \/ \E productId \in ProductIds \cup {MissingProduct}, quantity \in 0..MaxQuantity :
          UpdateCartItem(productId, quantity)
    \/ \E c \in DOMAIN calls : ProductRead(c)
    \/ \E c \in DOMAIN calls : GetCart(c)
    \/ \E c \in DOMAIN calls : GetCartCreate(c)
    \/ \E c \in DOMAIN calls : AddGetDoc(c)
    \/ \E c \in DOMAIN calls : UpdateGetDoc(c)
    \/ \E c \in DOMAIN calls : RemoveGetDoc(c)
    \/ \E c \in DOMAIN calls : Write(c)

SpecCart == InitFresh /\ [][NextCart]_vars

\* C29: for a product of stock S, whatever the calls of addToCart and
\* updateCartItem and however their reads and writes interleave, the cart
\* never holds more than S of the product and never two items of one
\* productId.
C29_StockRespected ==
    /\ \A k \in DOMAIN cartDoc.items : cartDoc.items[k].quantity <= Stock
    /\ \A k, m \in DOMAIN cartDoc.items :
          cartDoc.items[k].productId = cartDoc.items[m].productId => k = m

(***************************************************************************)
(* The orders section of the profile page (scripts/profile/orders).        *)
(* Texts are sequences of characters.  A load is two steps, the call and   *)
(* the continuation after its last await; every other handler is one step. *)
(***************************************************************************)
MaxLoads == 2

ORDERS_PER_PAGE == 3

\* FILTER_MAP[currentFilter] ?? currentFilter
FILTER_MAP(filter) ==
    CASE filter = "pendientes" -> "Pendientes"
      [] filter = "procesando" -> "Procesando"
      [] filter = "en camino" -> "En camino"
      [] filter = "entregados" -> "Entregados"
      [] filter = "cancelados" -> "Cancelados"
      [] OTHER -> filter

\* STATUS_MAP[status] ?? STATUS_MAP.pending, its status label
MapOrderStatus(status) ==
    CASE status = "pending" -> "Pendientes"
      [] status = "processing" -> "Procesando"
      [] status = "shipped" -> "En camino"
      [] status = "delivered" -> "Entregados"
      [] status = "cancelled" -> "Cancelados"
      [] OTHER -> "Pendientes"

\* String.prototype.toLowerCase over the letters the orders use
LowerChar(ch) ==
    CASE ch = "A" -> "a"
      [] ch = "B" -> "b"
      [] ch = "C" -> "c"
      [] ch = "F" -> "f"
      [] ch = "O" -> "o"
      [] OTHER -> ch

ToLowerCase(text) == [k \in DOMAIN text |-> LowerChar(text[k])]

\* String.prototype.trim
RECURSIVE Trim(_)
Trim(text) ==
    IF text = <<>> THEN <<>>
    ELSE IF Head(text) = " " THEN Trim(Tail(text))
    ELSE IF text[Len(text)] = " " THEN Trim(SubSeq(text, 1, Len(text) - 1))
    ELSE text

\* names.join(' ')
RECURSIVE Join(_)
Join(texts) ==
    IF texts = <<>> THEN <<>>
    ELSE IF Len(texts) = 1 THEN texts[1]
    ELSE texts[1] \o <<" ">> \o Join(Tail(texts))

\* the orders getUserOrders can return: the user's own seven and one of
\* another user
UserId == "u1"

FirebaseOrder(id, userId, status, names, invoice) ==
    [id |-> id, userId |-> userId, status |-> status, items |-> names,
     invoiceNumber |-> invoice]

StoredOrders ==
    << FirebaseOrder(<<"O", "1">>, UserId, "delivered", << <<"A", "b">> >>, << <<"F", "1">> >>),
       FirebaseOrder(<<"O", "2">>, UserId, "pending", << <<"b">> >>, <<>>),
       FirebaseOrder(<<"O", "9">>, "u2", "delivered", << <<"a">> >>, <<>>),
       FirebaseOrder(<<"O", "3">>, UserId, "delivered", << <<"c">>, <<"a">> >>, <<>>),
       FirebaseOrder(<<"O", "4">>, UserId, "processing", << <<"A", "b">> >>, <<>>),
       FirebaseOrder(<<"O", "5">>, UserId, "delivered", << <<"b">> >>, <<>>),
       FirebaseOrder(<<"O", "6">>, UserId, "returned", << <<"A">> >>, <<>>),
       FirebaseOrder(<<"O", "7">>, UserId, "cancelled", << <<"b">> >>, <<>>) >>

\* result.data of getUserOrders at different times
OrderResults == { SubSeq(StoredOrders, 1, n) : n \in {0, 3, 5, 8} }

\* convertFirebaseOrderToComponent, the fields the list uses
ConvertFirebaseOrderToComponent(o) ==
    [id |-> o.id, status |-> MapOrderStatus(o.status), products |-> o.items,
     invoiceNumber |-> o.invoiceNumber]

\* rawOrders.filter((o) => o.userId === userId).map(convert...)
RECURSIVE UserOrders(_)
UserOrders(rawOrders) ==
    IF rawOrders = <<>> THEN <<>>
    ELSE IF Head(rawOrders).userId = UserId
    THEN <<ConvertFirebaseOrderToComponent(Head(rawOrders))>> \o UserOrders(Tail(rawOrders))
    ELSE UserOrders(Tail(rawOrders))

\* the callback of allOrders.filter in filterOrders
Matches(order, currentFilter, currentSearch) ==
    /\ currentFilter # "all" => order.status = FILTER_MAP(currentFilter)
    /\ Trim(currentSearch) # <<>> =>
          LET search == ToLowerCase(currentSearch) IN
          \/ Includes(ToLowerCase(order.id), search)
          \/ Includes(ToLowerCase(IF order.invoiceNumber = <<>> THEN <<>>
                                  ELSE order.invoiceNumber[1]), search)
          \/ Includes(Join([k \in DOMAIN order.products |->
                               ToLowerCase(order.products[k])]), search)

RECURSIVE Filter(_, _, _)
Filter(orders, currentFilter, currentSearch) ==
    IF orders = <<>> THEN <<>>
    ELSE IF Matches(Head(orders), currentFilter, currentSearch)
    THEN <<Head(orders)>> \o Filter(Tail(orders), currentFilter, currentSearch)
    ELSE Filter(Tail(orders), currentFilter, currentSearch)

\* faulty variant: filterOrders without its last line
FilterOrders_KeepsPage(s) ==
    [s EXCEPT !.filteredOrders = Filter(s.allOrders, s.currentFilter, s.currentSearch)]

\* filterOrders(state)
FilterOrders(s) ==
    [s EXCEPT !.filteredOrders = Filter(s.allOrders, s.currentFilter, s.currentSearch),
              !.currentPage = 1]

\* Math.ceil(filteredOrders.length / ORDERS_PER_PAGE)
TotalPages(s) == (Len(s.filteredOrders) + ORDERS_PER_PAGE - 1) \div ORDERS_PER_PAGE

Max(a, b) == IF a >= b THEN a ELSE b
Min(a, b) == IF a <= b THEN a ELSE b

\* const maxVisible = 5
MaxVisible == 5

\* the page-number buttons updatePagination builds
PageButtons(s) ==
    LET startPage == Max(1, s.currentPage - (MaxVisible \div 2))
        endPage == Min(TotalPages(s), startPage + MaxVisible - 1)
    IN  (IF endPage - startPage < MaxVisible - 1
         THEN Max(1, endPage - MaxVisible + 1)
         ELSE startPage)..endPage

\* refresh(): renderOrders hides the controls when the page's slice is
\* empty and shows them otherwise, updatePagination rebuilds them
Refresh(s) ==
    pagination' =
        [hidden |-> (s.currentPage - 1) * ORDERS_PER_PAGE >= Len(s.filteredOrders),
         buttons |-> PageButtons(s),
         prev |-> s.currentPage = 1,
         next |-> s.currentPage = TotalPages(s) \/ TotalPages(s) = 0]

\* applyFilters(): filterOrders, then refresh
ApplyFilters(s) ==
    /\ state' = FilterOrders(s)
    /\ Refresh(FilterOrders(s))

\* loadOrders() is called; it returns at once while the section is not shown
LoadOrders ==
    /\ \E visible \in BOOLEAN :
          IF visible /\ loading < MaxLoads
          THEN loading' = loading + 1
          ELSE UNCHANGED loading
    /\ UNCHANGED <<cartDoc, calls, state, pagination>>
    /\ UNCHANGED workerVars

\* getUserOrders resolved with data: lines 95-107
LoadSucceeds(rawOrders) ==
    LET loaded == [state EXCEPT !.allOrders = UserOrders(rawOrders),
                                !.filteredOrders = UserOrders(rawOrders),
                                !.currentPage = 1]
    IN
    /\ loading > 0
    /\ loading' = loading - 1
    /\ state' = loaded
    /\ IF Len(loaded.allOrders) = 0
       THEN pagination' = [pagination EXCEPT !.hidden = TRUE]
       ELSE Refresh(loaded)
    /\ UNCHANGED <<cartDoc, calls>>
    /\ UNCHANGED workerVars

\* no user id, or getUserOrders failed: showError, the state is left alone
LoadFails ==
    /\ loading > 0
    /\ loading' = loading - 1
    /\ UNCHANGED <<cartDoc, calls, state, pagination>>
    /\ UNCHANGED workerVars

\* the texts typed into the search box
SearchTexts == { <<>>, <<" ">>, <<"a">>, <<"A">>, <<" ", "a">>, <<"z">> }

\* the data-status values of the filter options, one of them unknown to FILTER_MAP
FilterOptions == { "all", "entregados", "pendientes", "devueltos" }

\* the input listener of the search box
SearchInput(value) ==
    /\ ApplyFilters([state EXCEPT !.currentSearch = value])
    /\ UNCHANGED <<cartDoc, calls, loading>>
    /\ UNCHANGED workerVars

\* the click listener of a filter option
FilterOption(status) ==
    /\ ApplyFilters([state EXCEPT !.currentFilter = status])
    /\ UNCHANGED <<cartDoc, calls, loading>>
    /\ UNCHANGED workerVars

\* the click listener of prevPageBtn
PrevPage ==
    /\ IF state.currentPage > 1
       THEN /\ state' = [state EXCEPT !.currentPage = @ - 1]
            /\ Refresh([state EXCEPT !.currentPage = @ - 1])
       ELSE UNCHANGED <<state, pagination>>
    /\ UNCHANGED <<cartDoc, calls, loading>>
    /\ UNCHANGED workerVars

\* the click listener of nextPageBtn
NextPage ==
    /\ IF state.currentPage < TotalPages(state)
       THEN /\ state' = [state EXCEPT !.currentPage = @ + 1]
            /\ Refresh([state EXCEPT !.currentPage = @ + 1])
       ELSE UNCHANGED <<state, pagination>>
    /\ UNCHANGED <<cartDoc, calls, loading>>
    /\ UNCHANGED workerVars

\* the click listener of a page-number button that is on screen
PageNumber(page) ==
    /\ ~pagination.hidden
    /\ page \in pagination.buttons
    /\ state' = [state EXCEPT !.currentPage = page]
    /\ Refresh([state EXCEPT !.currentPage = page])
    /\ UNCHANGED <<cartDoc, calls, loading>>
    /\ UNCHANGED workerVars

NextOrders ==
    \/ LoadOrders
    \/ \E rawOrders \in OrderResults : LoadSucceeds(rawOrders)
    \/ LoadFails
    \/ \E value \in SearchTexts : SearchInput(value)
    \/ \E status \in FilterOptions : FilterOption(status)
    \/ PrevPage
    \/ NextPage
    \/ \E page \in 1..MaxVisible : PageNumber(page)

SpecOrders == InitFresh /\ [][NextOrders]_vars

\* filteredOrders is allOrders with some of its orders left out
RECURSIVE IsSubList(_, _)
IsSubList(sub, list) ==
    IF sub = <<>> THEN TRUE
    ELSE IF list = <<>> THEN FALSE
    ELSE IF Head(sub) = Head(list) THEN IsSubList(Tail(sub), Tail(list))
    ELSE IsSubList(sub, Tail(list))

\* C30: whatever the loads, search and filter changes and page clicks,
\* currentPage stays between 1 and max(1, ceil(|filteredOrders| /
\* ORDERS_PER_PAGE)) and filteredOrders is a sub-list of allOrders; every
\* search or filter change and every load that delivers orders puts
\* currentPage back to 1.
C30_PageInRange ==
    /\ [](/\ state.currentPage >= 1
          /\ state.currentPage <= Max(1, TotalPages(state))
          /\ IsSubList(state.filteredOrders, state.allOrders))
    /\ [][(\/ \E value \in SearchTexts : SearchInput(value)
           \/ \E status \in FilterOptions : FilterOption(status)
           \/ \E rawOrders \in OrderResults : LoadSucceeds(rawOrders))
          => state'.currentPage = 1]_vars

\* the search for "a" has left four of the seven orders and the second, last
\* page of them is shown
C30_Witness ==
    /\ state.currentPage = 2
    /\ TotalPages(state) = 2
    /\ Trim(state.currentSearch) # <<>>
    /\ Len(state.filteredOrders) < Len(state.allOrders)
    /\ pagination.next

====
